---- MODULE Spec2Model ----
(***************************************************************************)
(* Model of the WhatsApp agent backend.                                    *)
(*                                                                         *)
(*   - the session lifecycle manager: WhatsAppService (backend/src/rag.js, *)
(*     the waService part), the broadcast state of socketService.js, the   *)
(*     administrative disconnect of whatsappAccountService.js and the      *)
(*     process-level uncaughtException handler of index.js;                *)
(*   - the message dispatcher: WhatsAppService.handleMessage.              *)
(*                                                                         *)
(* JavaScript runs a handler without interruption up to its next await, so *)
(* every action below is one such run-to-completion segment: it begins     *)
(* with the arrival of an event, or with the completion of the operation   *)
(* the handler is awaiting, and ends at the next await or at the end of    *)
(* the handler.                                                            *)
(***************************************************************************)
EXTENDS Integers, Sequences, FiniteSets, Bags, TLC

\* ------------------------------------------------------------------ bounds

\* Transport events delivered to the manager in one run.
MaxEvents == 2

\* Message events delivered in one run.
MaxMessages == 2
\* Calls of saveIncomingMessage / saveOutgoingMessage followed.
MaxSaves == 2
\* Calls of findOrCreateContact followed on their own.
MaxCalls == 3
\* The largest topK searchKB is called with.
MaxTopK == 3
\* Store operations that fail in one run.
MaxFaults == 1

\* ------------------------------------------------------------------ state

VARIABLES
    waState,        \* socketService.js: the shared broadcast state
    acct,           \* the whatsapp_accounts row of the bound account
    ctx,            \* TRUE when this.orgId and this.waAccountId are set
    clients,        \* the Client objects constructed so far, by their state
    client,         \* this.client: index into clients
    boot,           \* position of the startup block of index.js
    tasks,          \* the event handlers in progress (a bag of records)
    lastDone,       \* the handler that finished last
    nEvents,        \* transport events delivered so far
    authDir,        \* TRUE while .wwebjs_auth exists on disk
    cacheDir,       \* TRUE while .wwebjs_cache exists on disk
    rejectionMode,  \* what the runtime does with an unhandled rejection,
                    \* "unknown" until one occurs
    escaped,        \* the last error that left a handler uncaught
    crashed,        \* TRUE once the process has terminated
    msgs,           \* the message events delivered, each with its handler
    contacts,       \* the rows of the contacts table, the id being the index
    conversations,  \* the rows of the conversations table
    messages,       \* the rows of the messages table
    saveTasks,      \* the calls of saveIncomingMessage / saveOutgoingMessage
    nFaults,        \* store operations that have failed so far
    fnCall,         \* a call of searchKB or generateAIReply on its own
    bootstrap       \* the tenancy tables and the calls of POST /api/bootstrap

vars == << waState, acct, ctx, clients, client, boot, tasks, lastDone, nEvents,
           authDir, cacheDir, rejectionMode, escaped, crashed, msgs,
           contacts, conversations, messages, saveTasks, nFaults, fnCall,
           bootstrap >>

\* The tables of the message store and the saves working on them.
storeVars == << contacts, conversations, messages, saveTasks, nFaults >>

\* The variables the manager and its handlers leave alone.
dataVars == << storeVars, fnCall, bootstrap >>

\* The variables handleMessage leaves alone.
lifecycleVars == << waState, acct, ctx, clients, client, boot, tasks, lastDone,
                   nEvents, authDir, cacheDir, rejectionMode >>

NULL == "null"

\* The wa_status enum of the whatsapp_accounts table.
Statuses == {"pending_qr", "connected", "disconnected", "error"}

\* Reasons the transport gives with a disconnected event.
Reasons == {"LOGOUT", "NAVIGATION"}

\* Errors that can reach the process-level handler.
QrRenderError == "QRCode: data too big"
EBUSYErrors == {"EBUSY: Cookies-journal", "EBUSY: .wwebjs_auth"}

\* ------------------------------------------------------------------ helpers

\* socketService.js setWaState: the patch overrides the fields it names.
Merge(ws, patch) ==
    [k \in DOMAIN ws |-> IF k \in DOMAIN patch THEN patch[k] ELSE ws[k]]

\* The update object updateAccountStatus builds for a status.
StatusUpdates(a, status) ==
    [a EXCEPT !.status = status,
              !.last_qr_at = IF status = "pending_qr" THEN TRUE ELSE @,
              !.last_connected_at = IF status = "connected" THEN TRUE ELSE @]

\* WhatsAppService.updateAccountStatus: nothing without a bound account, and
\* a store error is logged and dropped.
updateAccountStatus(a, bound, status, dbOk) ==
    IF bound /\ dbOk THEN StatusUpdates(a, status) ELSE a

\* WhatsAppService.updateAccountPhoneNumber.
updateAccountPhoneNumber(a, bound, dbOk) ==
    IF bound /\ dbOk THEN [a EXCEPT !.phone_number = TRUE] ELSE a

\* index.js process.on('uncaughtException'): the file-lock errors of the
\* session directory are ignored, every other error is thrown again.
uncaughtException(err) ==
    IF err \in EBUSYErrors THEN "ignored" ELSE "rethrown"

\* The unhandled-rejection mode of the runtime is fixed for the process: it
\* shows at the first unhandled rejection and is the same at every later one.
RejectionModes ==
    IF rejectionMode = "unknown" THEN {"throw", "warn"} ELSE {rejectionMode}

\* An error leaves an async handler: the rejection of its promise has no
\* handler.  The runtime either raises it as an uncaught exception or only
\* warns, depending on its unhandled-rejection mode.
EscapeCrashes(mode, err) ==
    mode = "throw" /\ uncaughtException(err) = "rethrown"

\* A handler instance: the event, the await it stands at, the steps it has
\* taken, the broadcast states it has published, and for a logout teardown
\* whether a destroy or a deletion failed and the connection objects it
\* destroyed and reinitialized.
NewTask(kind, arg, pc, sent) ==
    [kind |-> kind, arg |-> arg, pc |-> pc, log |-> << >>, sent |-> sent,
     fault |-> FALSE, destroyedOn |-> 0, reinitOn |-> 0]

NoTask == NewTask("none", NULL, "done", << >>)

Running == BagToSet(tasks)

Spawn(t) == tasks' = tasks (+) SetToBag({t})

Advance(t, u) == tasks' = (tasks (-) SetToBag({t})) (+) SetToBag({u})

Finish(t, u) ==
    /\ tasks' = tasks (-) SetToBag({t})
    /\ lastDone' = u

\* Where a handler that has just been advanced to u goes: back among the
\* handlers in progress, or to the finished ones.
Continue(t, u) ==
    IF u.pc \in {"done", "threw"}
    THEN Finish(t, u)
    ELSE Advance(t, u) /\ UNCHANGED lastDone

\* The same for a handler that starts with the delivery of its event.
Deliver(u) ==
    /\ nEvents' = nEvents + 1
    /\ IF u.pc \in {"done", "threw"}
       THEN lastDone' = u /\ UNCHANGED tasks
       ELSE Spawn(u) /\ UNCHANGED lastDone

At(t, kind, pc) ==
    /\ ~crashed
    /\ t \in Running
    /\ t.kind = kind
    /\ t.pc = pc

\* The transport delivers events of the connection object the handlers are
\* registered on, from the moment its initialize() is called.
Emitting == clients[client] \in {"initializing", "live"}

CanDeliver == ~crashed /\ Emitting /\ nEvents < MaxEvents

\* ------------------------------------------------------------------ init

\* After waService.init(): one Client constructed, the handlers registered,
\* the broadcast state as socketService.js declares it, the account row as
\* createWhatsAppAccount inserts it, no session on disk yet.
\* The tenancy tables of one user before any bootstrap call: no organization,
\* no membership, and the profile row as given (profiles.default_org_id is
\* nullable, 0 standing for null).
Tenancy(profile) ==
    [orgs |-> {}, inserted |-> 0, profile |-> profile, memberships |-> {},
     calls |-> << >>, faults |-> 0]

NoProfile == [exists |-> FALSE, default |-> 0, by |-> 0]

InitManager ==
    /\ waState = [connected |-> FALSE, qrDataUrl |-> NULL, lastError |-> NULL]
    /\ acct = [status |-> "pending_qr", notes |-> NULL, phone_number |-> FALSE,
               last_qr_at |-> FALSE, last_connected_at |-> FALSE]
    /\ ctx = FALSE
    /\ clients = << "constructed" >>
    /\ client = 1
    /\ boot = "start"
    /\ tasks = EmptyBag
    /\ lastDone = NoTask
    /\ nEvents = 0
    /\ authDir = FALSE
    /\ cacheDir = FALSE
    /\ rejectionMode = "unknown"
    /\ escaped = NULL
    /\ crashed = FALSE
    /\ msgs = << >>
    /\ fnCall = [fn |-> NULL, pc |-> "idle"]

\* The manager at its start over an empty store.
Init ==
    /\ InitManager
    /\ contacts = << >>
    /\ conversations = << >>
    /\ messages = << >>
    /\ saveTasks = << >>
    /\ nFaults = 0
    /\ bootstrap = Tenancy(NoProfile)

\* ------------------------------------------------------------------ startup

\* index.js startup block: loadContext(), then waService.initialize() calls
\* client.initialize() and awaits it.
Start(found) ==
    /\ ~crashed
    /\ boot = "start"
    /\ ctx' = found
    /\ clients' = [clients EXCEPT ![client] = "initializing"]
    /\ boot' = "initializing"
    /\ UNCHANGED << dataVars, msgs, waState, acct, client, tasks, lastDone, nEvents, authDir,
                    cacheDir, rejectionMode, escaped, crashed >>

\* The state of a Client object when an initialize() call on it returns: it
\* is live when the call resolves; a rejected call leaves a destroyed object
\* destroyed and any other object unusable.
AfterInitialize(state, ok) ==
    IF ok THEN "live" ELSE IF state = "destroyed" THEN "destroyed" ELSE "failed"

\* An initialize() call can only resolve on an object that is still being
\* initialized (it was not destroyed in the meantime).
InitOutcomes(c) == IF clients[c] = "initializing" THEN BOOLEAN ELSE {FALSE}

\* WhatsAppService.initialize: client.initialize() resolves, or rejects and
\* the catch publishes the failure.
InitializeReturn(ok) ==
    /\ ~crashed
    /\ boot = "initializing"
    /\ ok \in InitOutcomes(client)
    /\ boot' = IF ok THEN "running" ELSE "failed"
    /\ clients' = [clients EXCEPT ![client] = AfterInitialize(@, ok)]
    /\ authDir' = (authDir \/ ok)
    /\ cacheDir' = (cacheDir \/ ok)
    /\ waState' = IF ok THEN waState
                  ELSE Merge(waState, [connected |-> FALSE,
                                       lastError |-> "Initialization failed",
                                       qrDataUrl |-> NULL])
    /\ UNCHANGED << dataVars, msgs, acct, ctx, client, tasks, lastDone, nEvents, rejectionMode,
                    escaped, crashed >>

\* ------------------------------------------------------------------ events

\* on('qr'), up to the await of QRCode.toDataURL.
OnQr ==
    /\ CanDeliver
    /\ Deliver(NewTask("qr", NULL, "render", << >>))
    /\ UNCHANGED << dataVars, msgs, waState, acct, ctx, clients, client, boot, authDir,
                    cacheDir, rejectionMode, escaped, crashed >>

\* on('qr'), from the return of QRCode.toDataURL: the image is published and
\* the status update is started; a rendering error is not caught and leaves
\* the handler.
QrRendered(t, ok) ==
    /\ At(t, "qr", "render")
    /\ IF ok
       THEN LET ws == Merge(waState, [connected |-> FALSE,
                                      qrDataUrl |-> "image",
                                      lastError |-> NULL])
            IN  /\ waState' = ws
                /\ Continue(t, [t EXCEPT
                       !.pc = IF ctx THEN "persist" ELSE "done",
                       !.sent = Append(@, ws)])
                /\ UNCHANGED << escaped, crashed, rejectionMode >>
       ELSE /\ Continue(t, [t EXCEPT !.pc = "threw"])
            /\ escaped' = QrRenderError
            /\ \E mode \in RejectionModes :
                   /\ rejectionMode' = mode
                   /\ crashed' = EscapeCrashes(mode, QrRenderError)
            /\ UNCHANGED waState
    /\ UNCHANGED << dataVars, msgs, acct, ctx, clients, client, boot, nEvents, authDir,
                    cacheDir >>

\* on('qr'), from the return of updateAccountStatus('pending_qr').
QrPersisted(t, dbOk) ==
    /\ At(t, "qr", "persist")
    /\ acct' = updateAccountStatus(acct, ctx, "pending_qr", dbOk)
    /\ Continue(t, [t EXCEPT !.pc = "done", !.log = Append(@, "status")])
    /\ UNCHANGED << dataVars, msgs, waState, ctx, clients, client, boot, nEvents, authDir,
                    cacheDir, rejectionMode, escaped, crashed >>

\* A variant of OnReady whose patch is { connected: true } alone; C36 fails
\* with it in place of OnReady.
OnReadyConnectedOnly ==
    /\ CanDeliver
    /\ LET ws == Merge(waState, [connected |-> TRUE])
       IN  /\ waState' = ws
           /\ Deliver(NewTask("ready", NULL,
                              IF ctx THEN "persist" ELSE "done", << ws >>))
    /\ UNCHANGED << dataVars, msgs, acct, ctx, clients, client, boot, authDir, cacheDir,
                    rejectionMode, escaped, crashed >>

\* on('ready'), up to the await of updateAccountStatus('connected'); without
\* a bound account both updates return at once.
OnReady ==
    /\ CanDeliver
    /\ LET ws == Merge(waState, [connected |-> TRUE, qrDataUrl |-> NULL,
                                 lastError |-> NULL])
       IN  /\ waState' = ws
           /\ Deliver(NewTask("ready", NULL,
                              IF ctx THEN "persist" ELSE "done", << ws >>))
    /\ UNCHANGED << dataVars, msgs, acct, ctx, clients, client, boot, authDir, cacheDir,
                    rejectionMode, escaped, crashed >>

\* A variant of ReadyPersisted in which a failed status update ends the
\* handler; C30 fails with it in place of ReadyPersisted.
ReadyPersistedOrStopped(t, dbOk) ==
    /\ At(t, "ready", "persist")
    /\ acct' = updateAccountStatus(acct, ctx, "connected", dbOk)
    /\ Continue(t, [t EXCEPT !.pc = IF dbOk THEN "phone" ELSE "done",
                             !.log = Append(@, "status")])
    /\ UNCHANGED << dataVars, msgs, waState, ctx, clients, client, boot, nEvents, authDir,
                    cacheDir, rejectionMode, escaped, crashed >>

\* on('ready'), from the return of updateAccountStatus('connected') to the
\* await inside updateAccountPhoneNumber.
ReadyPersisted(t, dbOk) ==
    /\ At(t, "ready", "persist")
    /\ acct' = updateAccountStatus(acct, ctx, "connected", dbOk)
    /\ Continue(t, [t EXCEPT !.pc = "phone", !.log = Append(@, "status")])
    /\ UNCHANGED << dataVars, msgs, waState, ctx, clients, client, boot, nEvents, authDir,
                    cacheDir, rejectionMode, escaped, crashed >>

\* on('ready'), from the return of the phone-number update.
ReadyPhone(t, dbOk) ==
    /\ At(t, "ready", "phone")
    /\ acct' = updateAccountPhoneNumber(acct, ctx, dbOk)
    /\ Continue(t, [t EXCEPT !.pc = "done", !.log = Append(@, "phone")])
    /\ UNCHANGED << dataVars, msgs, waState, ctx, clients, client, boot, nEvents, authDir,
                    cacheDir, rejectionMode, escaped, crashed >>

\* A variant of the auth_failure handler that changes nothing and publishes
\* nothing; C8 fails with it in place of OnAuthFailure.
OnAuthFailureUnpublished ==
    /\ CanDeliver
    /\ Deliver(NewTask("auth_failure", "auth failure", "done", << >>))
    /\ UNCHANGED << dataVars, msgs, waState, acct, ctx, clients, client, boot, authDir,
                    cacheDir, rejectionMode, escaped, crashed >>

\* on('auth_failure'): the whole handler.
OnAuthFailure ==
    /\ CanDeliver
    /\ LET ws == Merge(waState, [connected |-> FALSE,
                                 lastError |-> "auth failure"])
       IN  /\ waState' = ws
           /\ Deliver(NewTask("auth_failure", "auth failure", "done",
                              << ws >>))
    /\ UNCHANGED << dataVars, msgs, acct, ctx, clients, client, boot, authDir, cacheDir,
                    rejectionMode, escaped, crashed >>

\* on('error'): the whole handler.
OnError ==
    /\ CanDeliver
    /\ LET ws == Merge(waState, [connected |-> FALSE,
                                 lastError |-> "client error",
                                 qrDataUrl |-> NULL])
       IN  /\ waState' = ws
           /\ Deliver(NewTask("error", "client error", "done", << ws >>))
    /\ UNCHANGED << dataVars, msgs, acct, ctx, clients, client, boot, authDir, cacheDir,
                    rejectionMode, escaped, crashed >>

\* ------------------------------------------------------------------ logout

\* The first segment of handleLogout: client.destroy() is called and awaited.
CallDestroy(t) ==
    [t EXCEPT !.pc = "destroy", !.log = Append(@, "destroy_call"),
              !.destroyedOn = client]

\* on('disconnected'), up to the await of updateAccountStatus; without a
\* bound account that call returns at once and the handler goes on.
OnDisconnected(reason) ==
    /\ CanDeliver
    /\ LET ws == Merge(waState, [connected |-> FALSE, lastError |-> reason,
                                 qrDataUrl |-> NULL])
           t  == NewTask("disconnected", reason, "persist", << ws >>)
       IN  /\ waState' = ws
           /\ Deliver(IF ctx THEN t
                      ELSE IF reason = "LOGOUT" THEN CallDestroy(t)
                      ELSE [t EXCEPT !.pc = "done"])
    /\ UNCHANGED << dataVars, msgs, acct, ctx, clients, client, boot, authDir, cacheDir,
                    rejectionMode, escaped, crashed >>

\* A variant of DisconnectedPersisted that enters handleLogout whatever the
\* reason; C28 fails with it in place of DisconnectedPersisted.
DisconnectedPersistedAnyReason(t, dbOk) ==
    /\ At(t, "disconnected", "persist")
    /\ acct' = updateAccountStatus(acct, ctx, "disconnected", dbOk)
    /\ Continue(t, CallDestroy([t EXCEPT !.log = Append(@, "status")]))
    /\ UNCHANGED << dataVars, msgs, waState, ctx, clients, client, boot, nEvents, authDir,
                    cacheDir, rejectionMode, escaped, crashed >>

\* on('disconnected'), from the return of updateAccountStatus('disconnected'):
\* a LOGOUT enters handleLogout, any other reason ends the handler.
DisconnectedPersisted(t, dbOk) ==
    /\ At(t, "disconnected", "persist")
    /\ acct' = updateAccountStatus(acct, ctx, "disconnected", dbOk)
    /\ LET u == [t EXCEPT !.log = Append(@, "status")]
       IN  Continue(t, IF t.arg = "LOGOUT" THEN CallDestroy(u)
                       ELSE [u EXCEPT !.pc = "done"])
    /\ UNCHANGED << dataVars, msgs, waState, ctx, clients, client, boot, nEvents, authDir,
                    cacheDir, rejectionMode, escaped, crashed >>

\* A variant of the destroy step that gives the teardown up when destroy()
\* fails; C7 fails with it in place of DestroyReturn.
DestroyReturnAborting(t, ok) ==
    /\ At(t, "disconnected", "destroy")
    /\ clients' = [clients EXCEPT ![t.destroyedOn] =
                       IF ok THEN "destroyed" ELSE @]
    /\ Continue(t, [t EXCEPT !.pc = IF ok THEN "wait1" ELSE "done",
                             !.log = Append(@, "destroy_ret"),
                             !.fault = ~ok])
    /\ UNCHANGED << dataVars, msgs, waState, acct, ctx, client, boot, nEvents, authDir,
                    cacheDir, rejectionMode, escaped, crashed >>

\* handleLogout, from the return of client.destroy(): a failure is caught and
\* logged; the first timer (5000 ms) is set either way.
DestroyReturn(t, ok) ==
    /\ At(t, "disconnected", "destroy")
    /\ clients' = [clients EXCEPT ![t.destroyedOn] =
                       IF ok THEN "destroyed" ELSE @]
    /\ Continue(t, [t EXCEPT !.pc = "wait1",
                             !.log = Append(@, "destroy_ret"),
                             !.fault = ~ok])
    /\ UNCHANGED << dataVars, msgs, waState, acct, ctx, client, boot, nEvents, authDir,
                    cacheDir, rejectionMode, escaped, crashed >>

\* The first timer fires: deleteDirSafely(authDir) is called and awaited.
Timer1(t) ==
    /\ At(t, "disconnected", "wait1")
    /\ Continue(t, [t EXCEPT !.pc = "del_auth",
                             !.log = @ \o << "timer1", "auth_start" >>])
    /\ UNCHANGED << dataVars, msgs, waState, acct, ctx, clients, client, boot, nEvents,
                    authDir, cacheDir, rejectionMode, escaped, crashed >>

\* deleteDirSafely: a directory that is absent stays absent; one that exists
\* is removed, or stays when a locked file could not be deleted (logged and
\* skipped).  It never throws.
deleteDirSafely(exists, removed) == exists /\ ~removed

\* deleteDirSafely(authDir) returns: deleteDirSafely(cacheDir) is called.
AuthDirReturn(t, removed) ==
    /\ At(t, "disconnected", "del_auth")
    /\ authDir' = deleteDirSafely(authDir, removed)
    /\ Continue(t, [t EXCEPT !.pc = "del_cache",
                             !.log = @ \o << "auth_ret", "cache_start" >>,
                             !.fault = @ \/ authDir'])
    /\ UNCHANGED << dataVars, msgs, waState, acct, ctx, clients, client, boot, nEvents,
                    cacheDir, rejectionMode, escaped, crashed >>

\* deleteDirSafely(cacheDir) returns: the second timer (2000 ms) is set.
CacheDirReturn(t, removed) ==
    /\ At(t, "disconnected", "del_cache")
    /\ cacheDir' = deleteDirSafely(cacheDir, removed)
    /\ Continue(t, [t EXCEPT !.pc = "wait2",
                             !.log = Append(@, "cache_ret"),
                             !.fault = @ \/ cacheDir'])
    /\ UNCHANGED << dataVars, msgs, waState, acct, ctx, clients, client, boot, nEvents,
                    authDir, rejectionMode, escaped, crashed >>

\* A variant of the reinitialize step that constructs a new Client and
\* initializes that one; C6 as the code has it fails with it in place of
\* Timer2.
Timer2Reconstructing(t) ==
    /\ At(t, "disconnected", "wait2")
    /\ clients' = Append(clients, "initializing")
    /\ client' = Len(clients) + 1
    /\ Continue(t, [t EXCEPT !.pc = "reinit",
                             !.log = @ \o << "timer2", "reinit_call" >>,
                             !.reinitOn = Len(clients) + 1])
    /\ UNCHANGED << dataVars, msgs, waState, acct, ctx, boot, nEvents, authDir, cacheDir,
                    rejectionMode, escaped, crashed >>

\* The second timer fires: this.client.initialize() is called and awaited.
\* this.client is the object init() constructed; no other is constructed.
Timer2(t) ==
    /\ At(t, "disconnected", "wait2")
    /\ clients' = [clients EXCEPT ![client] = "initializing"]
    /\ Continue(t, [t EXCEPT !.pc = "reinit",
                             !.log = @ \o << "timer2", "reinit_call" >>,
                             !.reinitOn = client])
    /\ UNCHANGED << dataVars, msgs, waState, acct, ctx, client, boot, nEvents, authDir,
                    cacheDir, rejectionMode, escaped, crashed >>

\* A variant of the return of the reinitialize call that sets the second
\* timer again after a failure instead of publishing it; C2 fails with it in
\* place of ReinitReturn.
ReinitReturnRetrying(t, ok) ==
    /\ At(t, "disconnected", "reinit")
    /\ ok \in InitOutcomes(t.reinitOn)
    /\ clients' = [clients EXCEPT ![t.reinitOn] = AfterInitialize(@, ok)]
    /\ authDir' = (authDir \/ ok)
    /\ cacheDir' = (cacheDir \/ ok)
    /\ Continue(t, IF ok
                   THEN [t EXCEPT !.pc = "done",
                                  !.log = Append(@, "reinit_ok")]
                   ELSE [t EXCEPT !.pc = "wait2",
                                  !.log = SubSeq(@, 1, Len(@) - 2)])
    /\ UNCHANGED << dataVars, msgs, waState, acct, ctx, client, boot, nEvents, rejectionMode,
                    escaped, crashed >>

\* The reinitialize call returns: a failure is caught and published.
ReinitReturn(t, ok) ==
    /\ At(t, "disconnected", "reinit")
    /\ ok \in InitOutcomes(t.reinitOn)
    /\ clients' = [clients EXCEPT ![t.reinitOn] = AfterInitialize(@, ok)]
    /\ authDir' = (authDir \/ ok)
    /\ cacheDir' = (cacheDir \/ ok)
    /\ IF ok
       THEN /\ Continue(t, [t EXCEPT !.pc = "done",
                                     !.log = Append(@, "reinit_ok")])
            /\ UNCHANGED waState
       ELSE LET ws == Merge(waState, [connected |-> FALSE,
                                      lastError |-> "Reinitialization failed",
                                      qrDataUrl |-> NULL])
            IN  /\ waState' = ws
                /\ Continue(t, [t EXCEPT !.pc = "done",
                                         !.log = Append(@, "reinit_failed"),
                                         !.sent = Append(@, ws)])
    /\ UNCHANGED << dataVars, msgs, acct, ctx, client, boot, nEvents, rejectionMode, escaped,
                    crashed >>

\* ------------------------------------------------------------------ others

\* A variant of disconnectWhatsAppAccount that also closes the connection
\* and publishes it; C27 fails with it in place of disconnectWhatsAppAccount.
disconnectWhatsAppAccountClosing(dbOk) ==
    /\ ~crashed
    /\ boot # "start"
    /\ acct' = IF dbOk
               THEN [acct EXCEPT !.status = "disconnected",
                                 !.notes = "Manually disconnected"]
               ELSE acct
    /\ clients' = [clients EXCEPT ![client] = "destroyed"]
    /\ waState' = Merge(waState, [connected |-> FALSE])
    /\ UNCHANGED << dataVars, msgs, ctx, client, boot, tasks, lastDone,
                    nEvents, authDir, cacheDir, rejectionMode, escaped,
                    crashed >>

\* whatsappAccountService.js disconnectWhatsAppAccount, as the route
\* POST /api/whatsapp-accounts/:accountId/disconnect calls it.
disconnectWhatsAppAccount(dbOk) ==
    /\ ~crashed
    /\ boot # "start"
    /\ acct' = IF dbOk
               THEN [acct EXCEPT !.status = "disconnected",
                                 !.notes = "Manually disconnected"]
               ELSE acct
    /\ UNCHANGED << dataVars, msgs, waState, ctx, clients, client, boot, tasks, lastDone,
                    nEvents, authDir, cacheDir, rejectionMode, escaped,
                    crashed >>

\* The transport library's own logout cleanup fails on a locked session file
\* while the manager awaits destroy(): the error reaches the process-level
\* handler directly.
LibraryFileLock(err) ==
    /\ ~crashed
    /\ \E t \in Running : t.kind = "disconnected" /\ t.pc = "destroy"
    /\ escaped # err
    /\ escaped' = err
    /\ crashed' = (uncaughtException(err) = "rethrown")
    /\ UNCHANGED << dataVars, msgs, waState, acct, ctx, clients, client, boot, tasks, lastDone,
                    nEvents, authDir, cacheDir, rejectionMode >>

\* ------------------------------------------------------------------ messages

\* Message bodies are sequences of characters, so that trimming and
\* lower-casing are computed.
WhiteSpace == {" ", "\t"}

Upper ==
    << "A", "B", "C", "D", "E", "F", "G", "H", "I", "J", "K", "L", "M",
       "N", "O", "P", "Q", "R", "S", "T", "U", "V", "W", "X", "Y", "Z" >>

Lower ==
    << "a", "b", "c", "d", "e", "f", "g", "h", "i", "j", "k", "l", "m",
       "n", "o", "p", "q", "r", "s", "t", "u", "v", "w", "x", "y", "z" >>

RECURSIVE trimStart(_)
trimStart(str) ==
    IF Len(str) > 0 /\ Head(str) \in WhiteSpace
    THEN trimStart(Tail(str)) ELSE str

RECURSIVE trimEnd(_)
trimEnd(str) ==
    IF Len(str) > 0 /\ str[Len(str)] \in WhiteSpace
    THEN trimEnd(SubSeq(str, 1, Len(str) - 1)) ELSE str

\* A variant of trimming that leaves the string as it is; C11 fails with it
\* in place of trim.
trimIdentity(str) == str

\* String.prototype.trim
trim(str) == trimEnd(trimStart(str))

\* A variant of lower-casing that leaves every character as it is; C10 fails
\* with it in place of toLowerCase.
toLowerCaseIdentity(str) == str

\* String.prototype.toLowerCase
toLowerCase(str) ==
    [i \in 1..Len(str) |->
        IF \E k \in 1..Len(Upper) : Upper[k] = str[i]
        THEN Lower[CHOOSE k \in 1..Len(Upper) : Upper[k] = str[i]]
        ELSE str[i]]

\* The health-check command.
PingCommand == << "p", "i", "n", "g" >>

\* The bodies the transport delivers.
Bodies ==
    { << >>,
      << " ", "\t" >>,
      << "p", "i", "n", "g" >>,
      << " ", "P", "i", "N", "G", "\t" >>,
      << "h", "i" >> }

\* ------------------------------------------------------- knowledge search

\* The whatsapp_accounts rows by id, with their org_id.
Accounts == [acc1 |-> "org1", acc2 |-> "org1", acc3 |-> "org2"]

\* getWhatsAppAccountById: the org_id of the row, null when there is no row
\* (PGRST116) and null when the select fails (the error is caught).
getWhatsAppAccountById(id, lookup) ==
    IF lookup = "row" /\ id \in DOMAIN Accounts THEN Accounts[id] ELSE NULL

\* A variant of embedText that lets a failure of the request out; C17 fails
\* with it in place of embedText.
embedTextThrowing(embedding) ==
    [raised |-> ~embedding.ok,
     values |-> IF embedding.ok THEN embedding.values ELSE << >>]

\* embedText: the values of the embedding; [] when the request fails, is
\* answered with an error status or carries no values.
embedText(embedding) ==
    [raised |-> FALSE,
     values |-> IF embedding.ok THEN embedding.values ELSE << >>]

RECURSIVE Dot(_, _)
Dot(a, b) == IF a = << >> THEN 0 ELSE a[1] * b[1] + Dot(Tail(a), Tail(b))

\* A variant of cosineSim that divides by the norm of the first vector
\* alone; C22 fails with it in place of cosineSim.
cosineSimByFirstNorm(a, b) ==
    IF Len(a) # Len(b) THEN [dot |-> -1, nn |-> 1]
    ELSE [dot |-> Dot(a, b),
          nn  |-> IF Dot(a, a) * Dot(a, a) = 0 THEN 1
                  ELSE Dot(a, a) * Dot(a, a)]

\* cosineSim: -1 for vectors of different lengths, otherwise
\* dot / (sqrt(na) * sqrt(nb) + 1e-10), kept as the pair (dot, na * nb); the
\* added 1e-10 makes the score of a zero vector 0.
cosineSim(a, b) ==
    IF Len(a) # Len(b) THEN [dot |-> -1, nn |-> 1]
    ELSE [dot |-> Dot(a, b),
          nn  |-> IF Dot(a, a) * Dot(b, b) = 0 THEN 1
                  ELSE Dot(a, a) * Dot(b, b)]

\* cosineSim with arguments that may be missing (null or undefined): the
\* test !a || !b comes first.
cosineSimOrMissing(a, b) ==
    IF ~a.given \/ ~b.given THEN [dot |-> -1, nn |-> 1]
    ELSE cosineSim(a.values, b.values)

\* The order of two scores: dot / sqrt(nn) compared by the signed squares.
SignedSquare(x) == IF x >= 0 THEN x * x ELSE 0 - x * x
ScoreGE(s, t) == SignedSquare(s.dot) * t.nn >= SignedSquare(t.dot) * s.nn
ScorePositive(s) == s.dot > 0

\* A variant of the sort that keeps the order of the rows; C16 fails with
\* it in place of sortByScore.
sortByScoreKeeping(rows) == rows

\* Array.prototype.sort((a, b) => b.score - a.score): stable, descending.
sortByScore(rows) ==
    LET Before(j, i) ==
            \/ ~ScoreGE(rows[i].score, rows[j].score)
            \/ ScoreGE(rows[j].score, rows[i].score) /\ j < i
        Rank(i) == 1 + Cardinality({j \in 1..Len(rows) : Before(j, i)})
    IN  [r \in 1..Len(rows) |->
            rows[CHOOSE i \in 1..Len(rows) : Rank(i) = r]]

\* Array.prototype.slice(0, n) and LIMIT n, for n >= 0.
slice(rows, n) == SubSeq(rows, 1, IF Len(rows) < n THEN Len(rows) ELSE n)

\* The kb_sources rows by id.
KbSources ==
    << [org |-> "org1", account |-> "acc1", status |-> "ready", title |-> "faq"],
       [org |-> "org1", account |-> NULL, status |-> "ready", title |-> "shared"],
       [org |-> "org1", account |-> "acc2", status |-> "ready", title |-> "other"],
       [org |-> "org2", account |-> "acc3", status |-> "ready", title |-> "foreign"],
       [org |-> "org1", account |-> "acc1", status |-> "processing",
        title |-> "draft"] >>

\* An embedding as the store hands it out: an array, or a string that
\* JSON.parse turns into an array (parses) or rejects.
Vec(values) == [string |-> FALSE, parses |-> TRUE, values |-> values]
VecString(values, parses) ==
    [string |-> TRUE, parses |-> parses, values |-> values]

KbChunk(id, source, embedding) ==
    [id |-> id, source |-> source, text |-> id, embedding |-> embedding]

\* Contents of the kb_chunks table: chunks of every source, all with
\* vectors of the length of the query
CleanKb ==
    << KbChunk("c1", 1, Vec(<< 1, 0 >>)),
       KbChunk("c2", 1, VecString(<< 1, 1 >>, TRUE)),
       KbChunk("c3", 2, Vec(<< 0, 1 >>)),
       KbChunk("c4", 3, Vec(<< 1, 0 >>)),
       KbChunk("c5", 4, Vec(<< 1, 1 >>)),
       KbChunk("c6", 5, Vec(<< 1, 0 >>)),
       KbChunk("c7", 1, Vec(<< 1, 2 >>)),
       KbChunk("c8", 1, Vec(<< -1, 0 >>)) >>

\* and the same with a vector of another length and a string that does not
\* parse.
MixedKb ==
    CleanKb \o << KbChunk("c9", 1, Vec(<< 1 >>)),
                  KbChunk("c10", 1, VecString(<< >>, FALSE)) >>

\* A table with nothing but chunks of a source that is not ready.
DraftKb == << KbChunk("c6", 5, Vec(<< 1, 0 >>)) >>

Kbs == {<< >>, DraftKb, CleanKb, MixedKb}

\* A variant of the filters that leaves out the organization; C18 fails with
\* it in place of InScope.
InScopeAnyOrg(kb, orgId, waAccountId) ==
    LET Passes(c) ==
            /\ KbSources[c.source].status = "ready"
            /\ waAccountId = NULL \/ KbSources[c.source].account = waAccountId
    IN  SelectSeq(kb, Passes)

\* The rows of kb_chunks joined with kb_sources that an organization and an
\* account filter (null for none) let through, ready sources only.
InScope(kb, orgId, waAccountId) ==
    LET Passes(c) ==
            /\ KbSources[c.source].status = "ready"
            /\ orgId = NULL \/ KbSources[c.source].org = orgId
            /\ waAccountId = NULL \/ KbSources[c.source].account = waAccountId
    IN  SelectSeq(kb, Passes)

\* A result row of searchKB.
Match(c, score) ==
    [id |-> c.id, text |-> c.text, title |-> KbSources[c.source].title,
     wa_account_id |-> KbSources[c.source].account, score |-> score]

\* supabase_kb_search_function.sql: search_kb_chunks.  The cosine distance
\* is defined for vectors of one length only; a row without such a vector
\* makes the statement fail.
search_kb_chunks(kb, query, match_threshold, match_count, orgId, waAccountId) ==
    LET rows  == InScope(kb, orgId, waAccountId)
        Valid(c) == c.embedding.parses /\ Len(c.embedding.values) = Len(query)
        Near(m)  == ScoreGE(m.score, [dot |-> match_threshold, nn |-> 1])
        scored == [i \in 1..Len(rows) |->
                      Match(rows[i], cosineSim(rows[i].embedding.values, query))]
    IN  IF \E i \in 1..Len(rows) : ~Valid(rows[i])
        THEN [error |-> TRUE, data |-> << >>]
        ELSE [error |-> FALSE,
              data  |-> slice(sortByScore(SelectSeq(scored, Near)), match_count)]

\* What searchKB meets outside its arguments: whether the supabase admin
\* client is configured, the outcome of the account lookup, what the
\* embedding request gives for the query (the values, if it succeeds), whether
\* the search_kb_chunks function is installed, whether the select on
\* kb_chunks fails, and the contents of kb_chunks.
Lookups == {"row", "none", "error"}
Embeddings ==
    {[ok |-> FALSE, values |-> << >>]} \cup
    {[ok |-> TRUE, values |-> v] : v \in {<< >>, << 1, 0 >>, << 1, 1 >>}}
KbEnvs ==
    [admin : BOOLEAN, lookup : Lookups, embedding : Embeddings,
     rpc : {"installed", "missing"}, fetch : {"rows", "error"}, kb : Kbs]

\* The value an async function settles with.
Returns(value) == [raised |-> FALSE, value |-> value]
Raises == [raised |-> TRUE, value |-> << >>]

\* searchKB(query, {topK, waAccountId, orgId}); the query reaches the code
\* only through its embedding.
searchKB(topK, waAccountId, orgId, env) ==
    LET org == IF orgId = NULL /\ waAccountId # NULL
               THEN getWhatsAppAccountById(waAccountId, env.lookup)
               ELSE orgId
        queryEmbedding == embedText(env.embedding)
        query == queryEmbedding.values
        rpc == IF env.rpc = "installed"
               THEN search_kb_chunks(env.kb, query, 0, topK * 3, org,
                                     waAccountId)
               ELSE [error |-> TRUE, data |-> << >>]
        OfAccount(r) == r.wa_account_id = waAccountId
        filtered == IF waAccountId # NULL
                    THEN SelectSeq(rpc.data, OfAccount) ELSE rpc.data
        chunks == slice(InScope(env.kb, org, waAccountId), 500)
        Usable(c) ==
            /\ c.embedding.parses
            /\ Len(c.embedding.values) = Len(query)
            /\ ScorePositive(cosineSim(query, c.embedding.values))
        usable == SelectSeq(chunks, Usable)
        scored == [i \in 1..Len(usable) |->
                      Match(usable[i],
                            cosineSim(query, usable[i].embedding.values))]
    IN  IF ~env.admin THEN Returns(<< >>)
        ELSE IF org = NULL THEN Returns(<< >>)
        ELSE IF queryEmbedding.raised THEN Raises
        ELSE IF query = << >> THEN Returns(<< >>)
        ELSE IF ~rpc.error THEN Returns(slice(filtered, topK))
        ELSE IF env.fetch = "error" THEN Returns(<< >>)
        ELSE IF chunks = << >> THEN Returns(<< >>)
        ELSE Returns(slice(sortByScore(scored), topK))

\* searchKB is called on its own.
CallSearchKB(topK, waAccountId, orgId, env) ==
    /\ fnCall.pc = "idle"
    /\ fnCall' = [fn |-> "searchKB", pc |-> "called", topK |-> topK,
                waAccountId |-> waAccountId, orgId |-> orgId, env |-> env]
    /\ UNCHANGED << lifecycleVars, escaped, crashed, msgs, storeVars, bootstrap >>

\* The promise of searchKB settles.
SearchKBReturn ==
    /\ fnCall.fn = "searchKB" /\ fnCall.pc = "called"
    /\ fnCall' = [fn |-> "searchKB", pc |-> "settled", topK |-> fnCall.topK,
                waAccountId |-> fnCall.waAccountId, orgId |-> fnCall.orgId,
                env |-> fnCall.env,
                result |-> searchKB(fnCall.topK, fnCall.waAccountId, fnCall.orgId,
                                    fnCall.env)]
    /\ UNCHANGED << lifecycleVars, escaped, crashed, msgs, storeVars, bootstrap >>

\* The vectors cosineSim is called with: up to two components, or missing.
Components == {-1, 0, 1, 2}
MaybeVectors ==
    {[given |-> FALSE, values |-> << >>]} \cup
    {[given |-> TRUE, values |-> v] :
        v \in {<< >>} \cup {<< x >> : x \in Components}
              \cup {<< x, y >> : x, y \in Components}}

\* cosineSim is called on its own.
CallCosineSim(a, b) ==
    /\ fnCall.pc = "idle"
    /\ fnCall' = [fn |-> "cosineSim", pc |-> "called", a |-> a, b |-> b]
    /\ UNCHANGED << lifecycleVars, escaped, crashed, msgs, storeVars, bootstrap >>

\* cosineSim returns.
CosineSimReturn ==
    /\ fnCall.fn = "cosineSim" /\ fnCall.pc = "called"
    /\ fnCall' = [fn |-> "cosineSim", pc |-> "settled", a |-> fnCall.a,
                  b |-> fnCall.b,
                  result |-> cosineSimOrMissing(fnCall.a, fnCall.b)]
    /\ UNCHANGED << lifecycleVars, escaped, crashed, msgs, storeVars, bootstrap >>

\* ------------------------------------------------------- reply generator

\* The organization and the account loadContext binds the manager to.
BoundOrg == "org1"
BoundAccount == "acc1"

\* The knowledge base and the services a running manager works with.
ServingKb ==
    [admin |-> TRUE, lookup |-> "row",
     embedding |-> [ok |-> TRUE, values |-> << 1, 1 >>],
     rpc |-> "installed", fetch |-> "rows", kb |-> CleanKb]

\* The prompt of generateAIReply: the snippets made of the matches, in
\* their order, and the user question; without snippets the prompt says
\* that none were retrieved.
userPrompt(userMessage, kbMatches) ==
    [snippets |-> [i \in 1..Len(kbMatches) |->
                      [n |-> i, title |-> kbMatches[i].title,
                       score |-> kbMatches[i].score,
                       text |-> kbMatches[i].text]],
     question |-> userMessage]

\* Array.prototype.join(" ")
RECURSIVE join(_)
join(parts) ==
    IF parts = << >> THEN << >>
    ELSE IF Len(parts) = 1 THEN parts[1]
    ELSE parts[1] \o << " " >> \o join(Tail(parts))

\* What the generation endpoint does with a request: the request fails, or
\* a response comes with a 2xx status or another, a body that parses or
\* does not, with or without candidate parts, each part with its text
\* (empty for a part without text).
PartTexts ==
    {<< >>, << << >> >>, << << " " >>, << >> >>, << << "o", "k" >> >>,
     << << >>, << "o", "k", " " >>, << "!" >> >>}
Responses ==
    [transport : {"answered", "failed"}, ok : BOOLEAN, parses : BOOLEAN,
     hasParts : BOOLEAN, parts : PartTexts]

\* The strings generateAIReply returns in place of a generated text.
GenerationError == "AI Error: Unable to generate response."
GenerationFailure == "AI Error: Something went wrong while generating a reply."
Rephrase == "I'm not sure, could you rephrase?"

\* A reply: one of the fixed strings, or a generated text.
Fixed(string) == [fixed |-> string, text |-> << >>]
Generated(text) == [fixed |-> NULL, text |-> text]

\* A variant of generateAIReply without the fallback for an empty output;
\* C15 fails with it in place of generateAIReply.
generateAIReplyNoFallback(userMessage, kbMatches, response) ==
    IF response.transport = "failed" \/ ~response.parses
    THEN Returns(Fixed(GenerationFailure))
    ELSE IF ~response.ok THEN Returns(Fixed(GenerationError))
    ELSE Returns(Generated(IF response.hasParts
                           THEN trim(join(response.parts)) ELSE << >>))

\* generateAIReply({userMessage, kbMatches}): a failed request and a body
\* that does not parse end in the catch block; the status is tested after
\* the body has been parsed; an output that is empty once trimmed gives way
\* to the request to rephrase.
generateAIReply(userMessage, kbMatches, response) ==
    LET output == IF response.hasParts
                  THEN trim(join(response.parts)) ELSE << >>
    IN  IF response.transport = "failed" \/ ~response.parses
        THEN Returns(Fixed(GenerationFailure))
        ELSE IF ~response.ok THEN Returns(Fixed(GenerationError))
        ELSE IF output = << >> THEN Returns(Fixed(Rephrase))
        ELSE Returns(Generated(output))

\* The lists of matches generateAIReply is called with.
MatchLists ==
    {<< >>,
     searchKB(1, "acc1", "org1", ServingKb).value,
     searchKB(2, "acc1", "org1", ServingKb).value}

\* generateAIReply is called on its own.
CallGenerateAIReply(userMessage, kbMatches, response) ==
    /\ fnCall.pc = "idle"
    /\ fnCall' = [fn |-> "generateAIReply", pc |-> "called",
                  userMessage |-> userMessage, kbMatches |-> kbMatches,
                  response |-> response,
                  prompt |-> userPrompt(userMessage, kbMatches)]
    /\ UNCHANGED << lifecycleVars, escaped, crashed, msgs, storeVars, bootstrap >>

\* The promise of generateAIReply settles.
GenerateAIReplyReturn ==
    /\ fnCall.fn = "generateAIReply" /\ fnCall.pc = "called"
    /\ fnCall' = [fn |-> "generateAIReply", pc |-> "settled",
                  userMessage |-> fnCall.userMessage,
                  kbMatches |-> fnCall.kbMatches,
                  response |-> fnCall.response, prompt |-> fnCall.prompt,
                  result |-> generateAIReply(fnCall.userMessage,
                                 fnCall.kbMatches, fnCall.response)]
    /\ UNCHANGED << lifecycleVars, escaped, crashed, msgs, storeVars, bootstrap >>

\* ------------------------------------------------------- message handler

\* The fixed replies of handleMessage (the ping reply without its emoji).
PingReply == "pong (Gemini AI is online)"
ErrorReply == "Sorry, something went wrong on my side."

\* What generateAIReply returns: the model's text or one of its fallbacks.
AiReplies == {"generated text", "AI Error: Unable to generate response."}

\* The aiModel handleMessage passes with a generated reply.
AiModel == "gemini-2.0-flash-exp"

\* The arguments of a saveOutgoingMessage call, with its defaults for the
\* parameters a caller leaves out.
OutgoingSave(body, aiUsed, aiModel, aiLatencyMs) ==
    [body |-> body, aiUsed |-> aiUsed, aiModel |-> aiModel,
     aiLatencyMs |-> aiLatencyMs]

\* A save is called only when the account context is set; the call is not
\* awaited.
SaveIfBound(saves, call) == IF ctx THEN Append(saves, call) ELSE saves

\* A handleMessage invocation: the message, the await it stands at, the
\* calls it has awaited, the saves it has called, the sends that returned,
\* the operation that raised inside the try block, how it ended, the state
\* of the promise of its incoming save, what searchKB returned and the
\* prompt generateAIReply made of it.
NewMessage(hasBody, body) ==
    [hasBody |-> hasBody, body |-> body, text |-> << >>, pc |-> "done",
     calls |-> << >>, inSaves |-> << >>, outSaves |-> << >>, sends |-> << >>,
     aiReply |-> NULL, raised |-> NULL, outcome |-> "returned",
     saved |-> "none", kbMatches |-> << >>,
     prompt |-> userPrompt(<< >>, << >>)]

SetMsg(i, m) == msgs' = [msgs EXCEPT ![i] = m]

AtMsg(i, pc) ==
    /\ ~crashed
    /\ i \in 1..Len(msgs)
    /\ msgs[i].pc = pc

\* A variant of Caught that saves the apology before it sends it; C37 fails
\* with it in place of Caught.
CaughtSavingFirst(m, op) ==
    [m EXCEPT !.raised = op, !.pc = "apology", !.calls = Append(@, "reply"),
              !.outSaves = SaveIfBound(@,
                  OutgoingSave(ErrorReply, FALSE, NULL, NULL))]

\* The catch block of handleMessage, entered when op raised: the apology is
\* sent and awaited.
Caught(m, op) ==
    [m EXCEPT !.raised = op, !.pc = "apology", !.calls = Append(@, "reply")]

\* A variant of the start of handleMessage that awaits the incoming save
\* before it goes on; C12 fails with it in place of OnMessage.
OnMessageAwaitingSave(hasBody, body) ==
    /\ ~crashed
    /\ Emitting
    /\ Len(msgs) < MaxMessages
    /\ LET text == IF hasBody THEN trim(body) ELSE << >>
           m    == NewMessage(hasBody, body)
       IN  msgs' = Append(msgs,
               IF text = << >>
               THEN m
               ELSE [m EXCEPT
                       !.text = text,
                       !.outcome = "pending",
                       !.inSaves = SaveIfBound(@, [body |-> text]),
                       !.saved = IF ctx THEN "pending" ELSE "none",
                       !.pc = IF ctx THEN "save_incoming"
                              ELSE IF toLowerCase(text) = PingCommand
                              THEN "ping_reply" ELSE "search",
                       !.calls = IF ctx THEN << "saveIncomingMessage" >>
                                 ELSE IF toLowerCase(text) = PingCommand
                                 THEN << "reply" >> ELSE << "searchKB" >>])
    /\ UNCHANGED << lifecycleVars, escaped, crashed, dataVars >>

\* on('message') and handleMessage up to its first await: a missing or blank
\* body returns at once; otherwise the incoming save is called and either
\* the ping reply is sent or searchKB is called.
OnMessage(hasBody, body) ==
    /\ ~crashed
    /\ Emitting
    /\ Len(msgs) < MaxMessages
    /\ LET text == IF hasBody THEN trim(body) ELSE << >>
           m    == NewMessage(hasBody, body)
       IN  msgs' = Append(msgs,
               IF text = << >>
               THEN m
               ELSE [m EXCEPT
                       !.text = text,
                       !.outcome = "pending",
                       !.inSaves = SaveIfBound(@, [body |-> text]),
                       !.saved = IF ctx THEN "pending" ELSE "none",
                       !.pc = IF toLowerCase(text) = PingCommand
                              THEN "ping_reply" ELSE "search",
                       !.calls = IF toLowerCase(text) = PingCommand
                                 THEN << "reply" >> ELSE << "searchKB" >>])
    /\ UNCHANGED << lifecycleVars, escaped, crashed, dataVars >>

\* A variant of PingReplyReturn without the return of the ping branch: the
\* handler goes on to searchKB; C34 fails with it in place of
\* PingReplyReturn.
PingReplyReturnFallingThrough(i, ok) ==
    /\ AtMsg(i, "ping_reply")
    /\ LET m == [msgs[i] EXCEPT
                    !.sends = Append(@, [body |-> PingReply, ok |-> ok])]
       IN  SetMsg(i, IF ok
                     THEN [m EXCEPT
                             !.outSaves = SaveIfBound(@,
                                 OutgoingSave(PingReply, FALSE, NULL, NULL)),
                             !.pc = "search",
                             !.calls = Append(@, "searchKB")]
                     ELSE Caught(m, "reply"))
    /\ UNCHANGED << lifecycleVars, escaped, crashed, dataVars >>

\* msg.reply(reply) of the ping branch returns: the reply is saved and the
\* handler returns; a failed send goes to the catch block.
PingReplyReturn(i, ok) ==
    /\ AtMsg(i, "ping_reply")
    /\ LET m == [msgs[i] EXCEPT
                    !.sends = Append(@, [body |-> PingReply, ok |-> ok])]
       IN  SetMsg(i, IF ok
                     THEN [m EXCEPT
                             !.outSaves = SaveIfBound(@,
                                 OutgoingSave(PingReply, FALSE, NULL, NULL)),
                             !.pc = "done", !.outcome = "returned"]
                     ELSE Caught(m, "reply"))
    /\ UNCHANGED << lifecycleVars, escaped, crashed, dataVars >>

\* this.searchKB(text, {topK: 3}) returns, called with neither an account
\* nor an organization: generateAIReply is called with the matches and
\* makes its prompt.
SearchReturn(i, ok) ==
    /\ AtMsg(i, "search")
    /\ LET kbMatches == searchKB(3, NULL, NULL, ServingKb).value
       IN  SetMsg(i, IF ok
                     THEN [msgs[i] EXCEPT
                             !.pc = "generate",
                             !.calls = Append(@, "generateAIReply"),
                             !.kbMatches = kbMatches,
                             !.prompt = userPrompt(msgs[i].text, kbMatches)]
                     ELSE Caught(msgs[i], "searchKB"))
    /\ UNCHANGED << lifecycleVars, escaped, crashed, dataVars >>

\* this.generateAIReply(...) returns: the reply is sent.
GenerateReturn(i, ok, reply) ==
    /\ AtMsg(i, "generate")
    /\ SetMsg(i, IF ok
                 THEN [msgs[i] EXCEPT !.pc = "reply", !.aiReply = reply,
                                      !.calls = Append(@, "reply")]
                 ELSE Caught(msgs[i], "generateAIReply"))
    /\ UNCHANGED << lifecycleVars, escaped, crashed, dataVars >>

\* A variant of ReplyReturn that marks the reply as generated only when it
\* is not the fallback string; C26 fails with it in place of ReplyReturn.
ReplyReturnMarkingSuccess(i, ok) ==
    /\ AtMsg(i, "reply")
    /\ LET m == [msgs[i] EXCEPT
                    !.sends = Append(@, [body |-> msgs[i].aiReply, ok |-> ok])]
           generated == m.aiReply = "generated text"
       IN  SetMsg(i, IF ok
                     THEN [m EXCEPT
                             !.outSaves = SaveIfBound(@,
                                 IF generated
                                 THEN OutgoingSave(m.aiReply, TRUE, AiModel, "ms")
                                 ELSE OutgoingSave(m.aiReply, FALSE, NULL, NULL)),
                             !.pc = "done", !.outcome = "returned"]
                     ELSE Caught(m, "reply"))
    /\ UNCHANGED << lifecycleVars, escaped, crashed, dataVars >>

\* msg.reply(aiReply) returns: the reply is saved with the model and the
\* latency and the handler returns; a failed send goes to the catch block.
ReplyReturn(i, ok) ==
    /\ AtMsg(i, "reply")
    /\ LET m == [msgs[i] EXCEPT
                    !.sends = Append(@, [body |-> msgs[i].aiReply, ok |-> ok])]
       IN  SetMsg(i, IF ok
                     THEN [m EXCEPT
                             !.outSaves = SaveIfBound(@,
                                 OutgoingSave(m.aiReply, TRUE, AiModel, "ms")),
                             !.pc = "done", !.outcome = "returned"]
                     ELSE Caught(m, "reply"))
    /\ UNCHANGED << lifecycleVars, escaped, crashed, dataVars >>

\* A variant of the end of the catch block without the inner catch: a failed
\* apology send leaves the handler; C9 fails with it in place of
\* ApologyReturn.
ApologyReturnPropagating(i, ok) ==
    /\ AtMsg(i, "apology")
    /\ LET m == [msgs[i] EXCEPT
                    !.sends = Append(@, [body |-> ErrorReply, ok |-> ok]),
                    !.pc = "done",
                    !.outcome = IF ok THEN "returned" ELSE "threw"]
       IN  SetMsg(i, IF ok
                     THEN [m EXCEPT
                             !.outSaves = SaveIfBound(@,
                                 OutgoingSave(ErrorReply, FALSE, NULL, NULL))]
                     ELSE m)
    /\ escaped' = IF ok THEN escaped ELSE "reply failed"
    /\ UNCHANGED << lifecycleVars, crashed, dataVars >>

\* msg.reply(errorReply) of the catch block returns: the apology is saved; a
\* failed send is swallowed by the inner catch.  The handler returns.
ApologyReturn(i, ok) ==
    /\ AtMsg(i, "apology")
    /\ LET m == [msgs[i] EXCEPT
                    !.sends = Append(@, [body |-> ErrorReply, ok |-> ok]),
                    !.pc = "done", !.outcome = "returned"]
       IN  SetMsg(i, IF ok
                     THEN [m EXCEPT
                             !.outSaves = SaveIfBound(@,
                                 OutgoingSave(ErrorReply, FALSE, NULL, NULL))]
                     ELSE m)
    /\ UNCHANGED << lifecycleVars, escaped, crashed, dataVars >>

\* The promise of saveIncomingMessage settles: the function catches what its
\* steps raise and resolves to the saved row or to null, so the .catch of
\* handleMessage has nothing to log; the handler is not resumed by it.
SaveIncomingReturn(i, ok) ==
    /\ ~crashed
    /\ i \in 1..Len(msgs)
    /\ msgs[i].saved = "pending"
    /\ SetMsg(i, [msgs[i] EXCEPT !.saved = IF ok THEN "row" ELSE "null"])
    /\ UNCHANGED << lifecycleVars, escaped, crashed, dataVars >>

\* ----------------------------------------------------------- message store

\* The addresses (msg.from) and display names (msg.notifyName || null) of
\* the senders.
Phones == {"alice", "bob"}
Names == {NULL, "Al"}

\* The ids of the rows of a table that pass the filters of a select.
Select(table, Test(_)) == {id \in 1..Len(table) : Test(table[id])}

\* .maybeSingle(): the row when exactly one row matches, otherwise no data;
\* several rows come with the error code PGRST116, which the callers let
\* pass as they do for no row.  0 stands for no data.
maybeSingle(ids) ==
    IF Cardinality(ids) = 1 THEN CHOOSE id \in ids : TRUE ELSE 0

\* String.prototype.substring(0, n)
substring(str, n) == SubSeq(str, 1, IF Len(str) < n THEN Len(str) ELSE n)

NoText == << "(", "n", "o", " ", "t", "e", "x", "t", ")" >>

\* updateConversationLastMessage: messageBody?.substring(0, 100) || '(no text)'
preview(body) ==
    IF substring(body, 100) = << >> THEN NoText ELSE substring(body, 100)

\* A call of saveIncomingMessage (direction "inbound"), of saveOutgoingMessage
\* ("outbound", re being the save of the message it answers) or of
\* findOrCreateContact on its own ("contact"): its arguments,
\* the await it stands at, the contact and the conversation it got, the
\* message row it inserted, the tables it inserted into, what it returned
\* (0 for null), the earlier calls with the same address whose
\* findOrCreateContact had returned a contact when it was called, and the
\* earlier calls that had returned by then.
NewSave(direction, phone, name, body, re) ==
    [direction |-> direction, phone |-> phone, name |-> name, body |-> body,
     re |-> re, pc |-> "contact_find", contact |-> 0, conv |-> 0,
     message |-> 0, made |-> {}, result |-> 0,
     after |-> {j \in 1..Len(saveTasks) :
                   /\ saveTasks[j].phone = phone
                   /\ saveTasks[j].contact # 0
                   /\ saveTasks[j].pc # "contact_update"},
     since |-> {j \in 1..Len(saveTasks) : saveTasks[j].pc = "done"}]

SetSave(k, t) == saveTasks' = [saveTasks EXCEPT ![k] = t]

AtSave(k, pc) == k \in 1..Len(saveTasks) /\ saveTasks[k].pc = pc

\* The outcome of a store operation: it may fail while faults are left.
Outcome(ok) ==
    /\ ok \/ nFaults < MaxFaults
    /\ nFaults' = IF ok THEN nFaults ELSE nFaults + 1

\* An error thrown inside the call is caught by it: it returns null.
Failed(t) == [t EXCEPT !.pc = "done", !.result = 0]

\* findOrCreateContact returns the contact id: a save goes on to
\* findOrCreateConversation.
ContactReturned(t, id) ==
    IF t.direction = "contact"
    THEN [t EXCEPT !.contact = id, !.pc = "done", !.result = id]
    ELSE [t EXCEPT !.contact = id, !.pc = "conv_find"]

\* findOrCreateContact(orgId, waAccountId, waNumber, name) is called.
CallFindOrCreateContact(phone, name) ==
    /\ Len(saveTasks) < MaxCalls
    /\ saveTasks' = Append(saveTasks,
           NewSave("contact", phone, name, << >>, 0))
    /\ UNCHANGED << contacts, conversations, messages, nFaults >>
    /\ UNCHANGED << lifecycleVars, escaped, crashed, msgs, fnCall, bootstrap >>

\* handleMessage 686-700: a message of a sender arrives at the manager of a
\* bound account and saveIncomingMessage is called.
CallSaveIncoming(phone, name) ==
    /\ ctx
    /\ Len(saveTasks) < MaxSaves
    /\ saveTasks' = Append(saveTasks,
           NewSave("inbound", phone, name, << "h", "i" >>, 0))
    /\ UNCHANGED << contacts, conversations, messages, nFaults >>
    /\ UNCHANGED << lifecycleVars, escaped, crashed, msgs, fnCall, bootstrap >>

\* handleMessage 709, 741, 763: the reply to the message of save k has been
\* sent and saveOutgoingMessage is called, once for one message.
CallSaveOutgoing(k) ==
    /\ ctx
    /\ Len(saveTasks) < MaxSaves
    /\ k \in 1..Len(saveTasks)
    /\ saveTasks[k].direction = "inbound"
    /\ \A j \in 1..Len(saveTasks) : saveTasks[j].re # k
    /\ saveTasks' = Append(saveTasks,
           NewSave("outbound", saveTasks[k].phone, NULL, << "o", "k" >>, k))
    /\ UNCHANGED << contacts, conversations, messages, nFaults >>
    /\ UNCHANGED << lifecycleVars, escaped, crashed, msgs, fnCall, bootstrap >>

\* findOrCreateContact: the select on (org_id, wa_account_id, wa_number)
\* returns.
ContactFindReturn(k, ok) ==
    /\ AtSave(k, "contact_find")
    /\ Outcome(ok)
    /\ LET t  == saveTasks[k]
           SameNumber(row) == row.phone = t.phone
           id == maybeSingle(Select(contacts, SameNumber))
       IN  SetSave(k, IF ~ok THEN Failed(t)
                      ELSE IF id # 0
                      THEN [t EXCEPT !.contact = id, !.pc = "contact_update"]
                      ELSE [t EXCEPT !.pc = "contact_insert"])
    /\ UNCHANGED << contacts, conversations, messages >>
    /\ UNCHANGED << lifecycleVars, escaped, crashed, msgs, fnCall, bootstrap >>

\* findOrCreateContact: the update of last_seen_at (and of the name when one
\* was given) returns; a failure is logged and the contact returned.
ContactUpdateReturn(k, ok) ==
    /\ AtSave(k, "contact_update")
    /\ Outcome(ok)
    /\ LET t == saveTasks[k]
       IN  /\ contacts' =
                 IF ok
                 THEN [contacts EXCEPT ![t.contact] =
                          [@ EXCEPT !.seen = @ + 1,
                                    !.name = IF t.name # NULL
                                             THEN t.name ELSE @]]
                 ELSE contacts
           /\ SetSave(k, ContactReturned(t, t.contact))
    /\ UNCHANGED << conversations, messages >>
    /\ UNCHANGED << lifecycleVars, escaped, crashed, msgs, fnCall, bootstrap >>

\* findOrCreateContact: the insert returns the new row.
ContactInsertReturn(k, ok) ==
    /\ AtSave(k, "contact_insert")
    /\ Outcome(ok)
    /\ LET t == saveTasks[k]
       IN  /\ contacts' =
                 IF ok
                 THEN Append(contacts,
                          [phone |-> t.phone, name |-> t.name, seen |-> 1])
                 ELSE contacts
           /\ SetSave(k, IF ok
                         THEN ContactReturned(
                                  [t EXCEPT !.made = @ \cup {"contacts"}],
                                  Len(contacts) + 1)
                         ELSE Failed(t))
    /\ UNCHANGED << conversations, messages >>
    /\ UNCHANGED << lifecycleVars, escaped, crashed, msgs, fnCall, bootstrap >>

\* findOrCreateConversation: the select on (org_id, wa_account_id,
\* contact_id) returns.
ConversationFindReturn(k, ok) ==
    /\ AtSave(k, "conv_find")
    /\ Outcome(ok)
    /\ LET t  == saveTasks[k]
           SameContact(row) == row.contact = t.contact
           id == maybeSingle(Select(conversations, SameContact))
       IN  SetSave(k, IF ~ok THEN Failed(t)
                      ELSE IF id # 0
                      THEN [t EXCEPT !.conv = id, !.pc = "message_insert"]
                      ELSE [t EXCEPT !.pc = "conv_insert"])
    /\ UNCHANGED << contacts, conversations, messages >>
    /\ UNCHANGED << lifecycleVars, escaped, crashed, msgs, fnCall, bootstrap >>

\* findOrCreateConversation: the insert returns the new row.
ConversationInsertReturn(k, ok) ==
    /\ AtSave(k, "conv_insert")
    /\ Outcome(ok)
    /\ LET t == saveTasks[k]
       IN  /\ conversations' =
                 IF ok
                 THEN Append(conversations,
                          [contact |-> t.contact, status |-> "open",
                           preview |-> << >>])
                 ELSE conversations
           /\ SetSave(k, IF ok
                         THEN [t EXCEPT !.conv = Len(conversations) + 1,
                                        !.made = @ \cup {"conversations"},
                                        !.pc = "message_insert"]
                         ELSE Failed(t))
    /\ UNCHANGED << contacts, messages >>
    /\ UNCHANGED << lifecycleVars, escaped, crashed, msgs, fnCall, bootstrap >>

\* A variant of MessageInsertReturn that writes over the last row of the
\* conversation when there is one; C25 fails with it in place of
\* MessageInsertReturn.
MessageInsertReturnUpserting(k, ok) ==
    /\ AtSave(k, "message_insert")
    /\ Outcome(ok)
    /\ LET t == saveTasks[k]
           row == [conversation |-> t.conv, direction |-> t.direction,
                   body |-> t.body]
           old == {m \in 1..Len(messages) : messages[m].conversation = t.conv}
           at == IF old = {} THEN Len(messages) + 1
                 ELSE CHOOSE m \in old : \A n \in old : n <= m
       IN  /\ messages' =
                 IF ~ok THEN messages
                 ELSE IF old = {} THEN Append(messages, row)
                 ELSE [messages EXCEPT ![at] = row]
           /\ SetSave(k, IF ok
                         THEN [t EXCEPT !.message = at,
                                        !.made = @ \cup {"messages"},
                                        !.pc = "conv_update"]
                         ELSE Failed(t))
    /\ UNCHANGED << contacts, conversations >>
    /\ UNCHANGED << lifecycleVars, escaped, crashed, msgs, fnCall, bootstrap >>

\* saveIncomingMessage / saveOutgoingMessage: the insert of the message row
\* returns; updateConversationLastMessage is called.
MessageInsertReturn(k, ok) ==
    /\ AtSave(k, "message_insert")
    /\ Outcome(ok)
    /\ LET t == saveTasks[k]
       IN  /\ messages' =
                 IF ok
                 THEN Append(messages,
                          [conversation |-> t.conv, direction |-> t.direction,
                           body |-> t.body])
                 ELSE messages
           /\ SetSave(k, IF ok
                         THEN [t EXCEPT !.message = Len(messages) + 1,
                                        !.made = @ \cup {"messages"},
                                        !.pc = "conv_update"]
                         ELSE Failed(t))
    /\ UNCHANGED << contacts, conversations >>
    /\ UNCHANGED << lifecycleVars, escaped, crashed, msgs, fnCall, bootstrap >>

\* updateConversationLastMessage returns, its failure only logged; the save
\* returns the message row.
ConversationUpdateReturn(k, ok) ==
    /\ AtSave(k, "conv_update")
    /\ Outcome(ok)
    /\ LET t == saveTasks[k]
       IN  /\ conversations' =
                 IF ok
                 THEN [conversations EXCEPT ![t.conv].preview = preview(t.body)]
                 ELSE conversations
           /\ SetSave(k, [t EXCEPT !.pc = "done", !.result = t.message])
    /\ UNCHANGED << contacts, messages >>
    /\ UNCHANGED << lifecycleVars, escaped, crashed, msgs, fnCall, bootstrap >>

\* ------------------------------------------------------ session cleanup
\* deleteDirSafely on a directory of plain files, every attempt a step.

MaxFiles == 3

\* deleteFileWithRetry(filePath, 3, 500) and the three rmdirSync attempts.
SessionRetries == 3

\* What one attempt on a file meets: the file is unlinked, it is no longer
\* there, or unlinkSync throws because it is locked.
AttemptOutcomes == {"unlinked", "absent", "locked"}

\* deleteDirSafely is called on its own for a directory of n files.
CallDeleteDirSafely(n) ==
    /\ fnCall.pc = "idle"
    /\ fnCall' = [fn |-> "deleteDirSafely",
                  pc |-> IF n = 0 THEN "rmdir" ELSE "unlink",
                  files |-> n, file |-> IF n = 0 THEN 0 ELSE 1, i |-> 0,
                  attempts |-> [f \in 1..n |-> 0], results |-> << >>,
                  left |-> {}, removed |-> FALSE]
    /\ UNCHANGED << lifecycleVars, escaped, crashed, msgs, storeVars, bootstrap >>

\* The call goes on after file f: to the next file or to the rmdir of the
\* directory.
NextFile(c, result) ==
    [c EXCEPT !.results = Append(@, result),
              !.left = IF result THEN @ ELSE @ \cup {c.file},
              !.i = 0,
              !.file = IF c.file < c.files THEN c.file + 1 ELSE c.file,
              !.pc = IF c.file < c.files THEN "unlink" ELSE "rmdir"]

\* A variant of deleteFileWithRetry that gives up one attempt later; C29
\* fails with it in place of deleteFileWithRetry.
deleteFileWithRetryOnceMore(maxRetries, outcome) ==
    /\ fnCall.fn = "deleteDirSafely" /\ fnCall.pc = "unlink"
    /\ LET c == [fnCall EXCEPT !.attempts[fnCall.file] = @ + 1]
       IN  fnCall' =
               IF outcome \in {"unlinked", "absent"} THEN NextFile(c, TRUE)
               ELSE IF c.i < maxRetries THEN [c EXCEPT !.pc = "unlink_wait"]
               ELSE NextFile(c, FALSE)
    /\ UNCHANGED << lifecycleVars, escaped, crashed, msgs, storeVars, bootstrap >>

\* deleteFileWithRetry: one turn of its loop. An unlinked or absent file
\* returns true; a throw is caught, and followed by the delay or, at the
\* last attempt, by the return of false. deleteDirSafely goes on to the
\* next file whatever was returned.
deleteFileWithRetry(maxRetries, outcome) ==
    /\ fnCall.fn = "deleteDirSafely" /\ fnCall.pc = "unlink"
    /\ LET c == [fnCall EXCEPT !.attempts[fnCall.file] = @ + 1]
       IN  fnCall' =
               IF outcome \in {"unlinked", "absent"} THEN NextFile(c, TRUE)
               ELSE IF c.i < maxRetries - 1 THEN [c EXCEPT !.pc = "unlink_wait"]
               ELSE NextFile(c, FALSE)
    /\ UNCHANGED << lifecycleVars, escaped, crashed, msgs, storeVars, bootstrap >>

\* The delay between two attempts is over.
RetryDelay ==
    /\ fnCall.fn = "deleteDirSafely"
    /\ fnCall.pc \in {"unlink_wait", "rmdir_wait"}
    /\ fnCall' = [fnCall EXCEPT
                     !.i = @ + 1,
                     !.pc = IF fnCall.pc = "unlink_wait" THEN "unlink"
                            ELSE "rmdir"]
    /\ UNCHANGED << lifecycleVars, escaped, crashed, msgs, storeVars, bootstrap >>

\* deleteRecursive: one rmdirSync attempt on the directory, which throws
\* while a file is left in it; after the last attempt deleteDirSafely
\* returns.
RmdirReturn(ok) ==
    /\ fnCall.fn = "deleteDirSafely" /\ fnCall.pc = "rmdir"
    /\ LET done == ok /\ fnCall.left = {}
       IN  fnCall' =
               IF done THEN [fnCall EXCEPT !.removed = TRUE, !.pc = "returned"]
               ELSE IF fnCall.i < SessionRetries - 1
               THEN [fnCall EXCEPT !.pc = "rmdir_wait"]
               ELSE [fnCall EXCEPT !.pc = "returned"]
    /\ UNCHANGED << lifecycleVars, escaped, crashed, msgs, storeVars, bootstrap >>

\* ------------------------------------------------------- bootstrap route
\* POST /api/bootstrap for one authenticated user, every await a step.

MaxBootCalls == 2
MaxBootFaults == 2

BaseSlug == << "base", 0 >>

NewBootCall ==
    [pc |-> "profile_find", existingProfile |-> NoProfile, orgId |-> 0,
     slug |-> BaseSlug, madeOrg |-> 0, madeProfile |-> FALSE, status |-> 0,
     returned |-> 0]

AtBoot(k, pc) == k \in 1..Len(bootstrap.calls) /\ bootstrap.calls[k].pc = pc

\* A request to the database succeeds or fails; failures are bounded.
BootFaults(ok) == IF ok THEN bootstrap.faults ELSE bootstrap.faults + 1

\* The response of call k.
Respond(c, status, orgId) ==
    [c EXCEPT !.pc = "done", !.status = status, !.returned = orgId]

\* The route is entered with a valid token.
CallBootstrap ==
    /\ Len(bootstrap.calls) < MaxBootCalls
    /\ bootstrap' = [bootstrap EXCEPT !.calls = Append(@, NewBootCall)]
    /\ UNCHANGED << lifecycleVars, escaped, crashed, msgs, storeVars, fnCall >>

\* Step 2: the profile select returns; its error is not looked at.
ProfileFindReturn(k, ok) ==
    /\ AtBoot(k, "profile_find")
    /\ ok \/ bootstrap.faults < MaxBootFaults
    /\ LET c == bootstrap.calls[k]
           found == IF ok THEN bootstrap.profile ELSE NoProfile
           d == [c EXCEPT !.existingProfile = found,
                          !.pc = IF found.exists /\ found.default # 0
                                 THEN "membership_single" ELSE "user_get"]
       IN  bootstrap' = [bootstrap EXCEPT !.calls[k] = d,
                                          !.faults = BootFaults(ok)]
    /\ UNCHANGED << lifecycleVars, escaped, crashed, msgs, storeVars, fnCall >>

\* Step 2: the membership of the default organization is selected with
\* .single(); a row ends the call with that organization.
MembershipSingleReturn(k, ok) ==
    /\ AtBoot(k, "membership_single")
    /\ ok \/ bootstrap.faults < MaxBootFaults
    /\ LET c == bootstrap.calls[k]
           org == c.existingProfile.default
           d == IF ok /\ org \in bootstrap.memberships
                THEN Respond(c, 200, org)
                ELSE [c EXCEPT !.pc = "user_get"]
       IN  bootstrap' = [bootstrap EXCEPT !.calls[k] = d,
                                          !.faults = BootFaults(ok)]
    /\ UNCHANGED << lifecycleVars, escaped, crashed, msgs, storeVars, fnCall >>

\* Step 3: the user's email is fetched; without it the call ends with 400.
UserGetReturn(k, ok) ==
    /\ AtBoot(k, "user_get")
    /\ ok \/ bootstrap.faults < MaxBootFaults
    /\ LET c == bootstrap.calls[k]
           d == IF ok THEN [c EXCEPT !.pc = "slug_find"]
                ELSE Respond(c, 400, 0)
       IN  bootstrap' = [bootstrap EXCEPT !.calls[k] = d,
                                          !.faults = BootFaults(ok)]
    /\ UNCHANGED << lifecycleVars, escaped, crashed, msgs, storeVars, fnCall >>

\* generateUniqueSlug: one turn of the loop. No row (or a failed select)
\* returns the slug; a row makes the next candidate, a random suffix that
\* is modelled by the number of the call. With an organization already in
\* the profile, step 4 reuses it and steps 4 and 5 make no request.
SlugFindReturn(k, ok) ==
    /\ AtBoot(k, "slug_find")
    /\ ok \/ bootstrap.faults < MaxBootFaults
    /\ LET c == bootstrap.calls[k]
           taken == ok /\ \E o \in bootstrap.orgs : o.slug = c.slug
           d == IF taken THEN [c EXCEPT !.slug = << "base", k >>]
                ELSE IF c.existingProfile.default # 0
                THEN [c EXCEPT !.orgId = c.existingProfile.default,
                               !.pc = "membership_find"]
                ELSE [c EXCEPT !.pc = "org_insert"]
       IN  bootstrap' = [bootstrap EXCEPT !.calls[k] = d,
                                          !.faults = BootFaults(ok)]
    /\ UNCHANGED << lifecycleVars, escaped, crashed, msgs, storeVars, fnCall >>

\* Step 4: the organization insert returns; organizations.slug is unique.
OrgInsertReturn(k, ok) ==
    /\ AtBoot(k, "org_insert")
    /\ ok \/ bootstrap.faults < MaxBootFaults
    /\ LET c == bootstrap.calls[k]
           id == bootstrap.inserted + 1
           done == ok /\ ~ \E o \in bootstrap.orgs : o.slug = c.slug
           d == IF done
                THEN [c EXCEPT !.orgId = id, !.madeOrg = id,
                               !.pc = IF c.existingProfile.exists
                                      THEN "profile_update"
                                      ELSE "profile_insert"]
                ELSE Respond(c, 500, 0)
       IN  bootstrap' =
               [bootstrap EXCEPT
                   !.calls[k] = d, !.faults = BootFaults(ok),
                   !.inserted = IF done THEN id ELSE @,
                   !.orgs = IF done THEN @ \cup {[id |-> id, slug |-> c.slug]}
                            ELSE @]
    /\ UNCHANGED << lifecycleVars, escaped, crashed, msgs, storeVars, fnCall >>

\* Step 5: the profile insert returns; profiles.id is the primary key and
\* default_org_id references organizations.
ProfileInsertReturn(k, ok) ==
    /\ AtBoot(k, "profile_insert")
    /\ ok \/ bootstrap.faults < MaxBootFaults
    /\ LET c == bootstrap.calls[k]
           done == /\ ok /\ ~ bootstrap.profile.exists
                   /\ \E o \in bootstrap.orgs : o.id = c.orgId
           d == IF done
                THEN [c EXCEPT !.madeProfile = TRUE, !.pc = "membership_find"]
                ELSE [c EXCEPT !.pc = "org_delete"]
       IN  bootstrap' =
               [bootstrap EXCEPT
                   !.calls[k] = d, !.faults = BootFaults(ok),
                   !.profile = IF done
                               THEN [exists |-> TRUE, default |-> c.orgId,
                                     by |-> k]
                               ELSE @]
    /\ UNCHANGED << lifecycleVars, escaped, crashed, msgs, storeVars, fnCall >>

\* Step 5: a profile without default organization is updated; the result of
\* the update is not looked at.
ProfileUpdateReturn(k, ok) ==
    /\ AtBoot(k, "profile_update")
    /\ ok \/ bootstrap.faults < MaxBootFaults
    /\ LET c == bootstrap.calls[k]
           done == /\ ok /\ bootstrap.profile.exists
                   /\ \E o \in bootstrap.orgs : o.id = c.orgId
       IN  bootstrap' =
               [bootstrap EXCEPT
                   !.calls[k] = [c EXCEPT !.pc = "membership_find"],
                   !.faults = BootFaults(ok),
                   !.profile = IF done THEN [@ EXCEPT !.default = c.orgId]
                               ELSE @]
    /\ UNCHANGED << lifecycleVars, escaped, crashed, msgs, storeVars, fnCall >>

\* Step 6: the membership select returns; its error is not looked at.
MembershipFindReturn(k, ok) ==
    /\ AtBoot(k, "membership_find")
    /\ ok \/ bootstrap.faults < MaxBootFaults
    /\ LET c == bootstrap.calls[k]
           d == IF ok /\ c.orgId \in bootstrap.memberships
                THEN Respond(c, 200, c.orgId)
                ELSE [c EXCEPT !.pc = "membership_insert"]
       IN  bootstrap' = [bootstrap EXCEPT !.calls[k] = d,
                                          !.faults = BootFaults(ok)]
    /\ UNCHANGED << lifecycleVars, escaped, crashed, msgs, storeVars, fnCall >>

\* Step 6: the membership insert returns; (org_id, user_id) is unique and
\* both columns are foreign keys. A failure starts the cleanup, which
\* deletes the profile only when this call found none.
MembershipInsertReturn(k, ok) ==
    /\ AtBoot(k, "membership_insert")
    /\ ok \/ bootstrap.faults < MaxBootFaults
    /\ LET c == bootstrap.calls[k]
           done == /\ ok /\ c.orgId \notin bootstrap.memberships
                   /\ bootstrap.profile.exists
                   /\ \E o \in bootstrap.orgs : o.id = c.orgId
           d == IF done THEN Respond(c, 200, c.orgId)
                ELSE [c EXCEPT !.pc = IF c.existingProfile.exists
                                      THEN "org_delete" ELSE "profile_delete"]
       IN  bootstrap' =
               [bootstrap EXCEPT
                   !.calls[k] = d, !.faults = BootFaults(ok),
                   !.memberships = IF done THEN @ \cup {c.orgId} ELSE @]
    /\ UNCHANGED << lifecycleVars, escaped, crashed, msgs, storeVars, fnCall >>

\* Cleanup: the profile delete returns, its result not looked at; the
\* memberships of the user go with the profile (on delete cascade).
ProfileDeleteReturn(k, ok) ==
    /\ AtBoot(k, "profile_delete")
    /\ ok \/ bootstrap.faults < MaxBootFaults
    /\ LET c == bootstrap.calls[k]
       IN  bootstrap' =
               [bootstrap EXCEPT
                   !.calls[k] = [c EXCEPT !.pc = "org_delete"],
                   !.faults = BootFaults(ok),
                   !.profile = IF ok THEN NoProfile ELSE @,
                   !.memberships = IF ok THEN {} ELSE @]
    /\ UNCHANGED << lifecycleVars, escaped, crashed, msgs, storeVars, fnCall >>

\* Cleanup: the organization delete returns, its result not looked at, and
\* the call ends with 500. The delete is refused while a profile refers to
\* the organization; the memberships of the organization go with it.
OrgDeleteReturn(k, ok) ==
    /\ AtBoot(k, "org_delete")
    /\ ok \/ bootstrap.faults < MaxBootFaults
    /\ LET c == bootstrap.calls[k]
           done == ok /\ ~ (bootstrap.profile.exists
                            /\ bootstrap.profile.default = c.orgId)
       IN  bootstrap' =
               [bootstrap EXCEPT
                   !.calls[k] = Respond(c, 500, 0),
                   !.faults = BootFaults(ok),
                   !.orgs = IF done THEN {o \in @ : o.id # c.orgId} ELSE @,
                   !.memberships = IF done THEN @ \ {c.orgId} ELSE @]
    /\ UNCHANGED << lifecycleVars, escaped, crashed, msgs, storeVars, fnCall >>

\* ------------------------------------------------------------------ spec

\* The completion of an awaited operation, or the firing of a timer.
Step ==
    \/ \E ok \in BOOLEAN : InitializeReturn(ok)
    \/ \E t \in Running, ok \in BOOLEAN :
           \/ QrRendered(t, ok)
           \/ QrPersisted(t, ok)
           \/ ReadyPersisted(t, ok)
           \/ ReadyPhone(t, ok)
           \/ DisconnectedPersisted(t, ok)
           \/ DestroyReturn(t, ok)
           \/ AuthDirReturn(t, ok)
           \/ CacheDirReturn(t, ok)
           \/ ReinitReturn(t, ok)
    \/ \E t \in Running : Timer1(t) \/ Timer2(t)

Next ==
    \/ \E found \in BOOLEAN : Start(found)
    \/ \E ok \in BOOLEAN : InitializeReturn(ok)
    \/ OnQr
    \/ \E t \in Running, ok \in BOOLEAN : QrRendered(t, ok)
    \/ \E t \in Running, ok \in BOOLEAN : QrPersisted(t, ok)
    \/ OnReady
    \/ \E t \in Running, ok \in BOOLEAN : ReadyPersisted(t, ok)
    \/ \E t \in Running, ok \in BOOLEAN : ReadyPhone(t, ok)
    \/ OnAuthFailure
    \/ OnError
    \/ \E reason \in Reasons : OnDisconnected(reason)
    \/ \E t \in Running, ok \in BOOLEAN : DisconnectedPersisted(t, ok)
    \/ \E t \in Running, ok \in BOOLEAN : DestroyReturn(t, ok)
    \/ \E t \in Running : Timer1(t)
    \/ \E t \in Running, ok \in BOOLEAN : AuthDirReturn(t, ok)
    \/ \E t \in Running, ok \in BOOLEAN : CacheDirReturn(t, ok)
    \/ \E t \in Running : Timer2(t)
    \/ \E t \in Running, ok \in BOOLEAN : ReinitReturn(t, ok)
    \/ \E ok \in BOOLEAN : disconnectWhatsAppAccount(ok)

Spec == Init /\ [][Next]_vars

\* Every awaited operation returns and every timer fires.
FairSpec == Spec /\ WF_vars(Step)

\* The manager together with the transport library's own logout cleanup.
HostNext == Next \/ \E err \in EBUSYErrors : LibraryFileLock(err)

HostSpec == Init /\ [][HostNext]_vars

\* The startup block and the message handler.
DispatchNext ==
    \/ \E found \in BOOLEAN : Start(found)
    \/ \E ok \in BOOLEAN : InitializeReturn(ok)
    \/ \E hasBody \in BOOLEAN, body \in Bodies :
           (hasBody \/ body = << >>) /\ OnMessage(hasBody, body)
    \/ \E i \in 1..Len(msgs), ok \in BOOLEAN : PingReplyReturn(i, ok)
    \/ \E i \in 1..Len(msgs), ok \in BOOLEAN : SearchReturn(i, ok)
    \/ \E i \in 1..Len(msgs), ok \in BOOLEAN, reply \in AiReplies :
           GenerateReturn(i, ok, reply)
    \/ \E i \in 1..Len(msgs), ok \in BOOLEAN : ReplyReturn(i, ok)
    \/ \E i \in 1..Len(msgs), ok \in BOOLEAN : ApologyReturn(i, ok)

DispatchSpec == Init /\ [][DispatchNext]_vars

\* The step of the handler of message i that its pending await resumes.
HandlerStep(i) ==
    \E ok \in BOOLEAN :
        \/ PingReplyReturn(i, ok)
        \/ SearchReturn(i, ok)
        \/ \E reply \in AiReplies : GenerateReturn(i, ok, reply)
        \/ ReplyReturn(i, ok)
        \/ ApologyReturn(i, ok)

\* The manager of a bound account, its message handlers and the incoming
\* saves they have called; a save may settle at any time or never.
PersistNext ==
    \/ Start(TRUE)
    \/ \E body \in Bodies : OnMessage(TRUE, body)
    \/ \E i \in 1..MaxMessages : HandlerStep(i)
    \/ \E i \in 1..MaxMessages, ok \in BOOLEAN : SaveIncomingReturn(i, ok)

PersistSpec == Init /\ [][PersistNext]_vars

\* The message store under the saves the handlers of one manager call: the
\* incoming save when a message arrives, the outgoing save when its reply
\* has been sent, none of them awaited.
StoreNext ==
    \/ Start(TRUE)
    \/ CallSaveIncoming("alice", NULL)
    \/ \E k \in 1..MaxSaves : CallSaveOutgoing(k)
    \/ \E k \in 1..MaxSaves, ok \in BOOLEAN :
          \/ ContactFindReturn(k, ok)
          \/ ContactUpdateReturn(k, ok)
          \/ ContactInsertReturn(k, ok)
          \/ ConversationFindReturn(k, ok)
          \/ ConversationInsertReturn(k, ok)
          \/ MessageInsertReturn(k, ok)
          \/ ConversationUpdateReturn(k, ok)

StoreSpec == Init /\ [][StoreNext]_vars

\* Tables as the saves of an earlier run of the manager leave them: empty,
\* one exchange saved in one conversation, and one exchange whose two saves
\* each inserted a contact and a conversation.
LeftStores ==
    LET Contact == [phone |-> "alice", name |-> NULL, seen |-> 1]
        Conversation(contact, body) ==
            [contact |-> contact, status |-> "open", preview |-> body]
        Message(conversation, direction, body) ==
            [conversation |-> conversation, direction |-> direction,
             body |-> body]
    IN  { [contacts |-> << >>, conversations |-> << >>, messages |-> << >>],
          [contacts |-> << [Contact EXCEPT !.seen = 2] >>,
           conversations |-> << Conversation(1, << "o", "k" >>) >>,
           messages |-> << Message(1, "inbound", << "h", "i" >>),
                           Message(1, "outbound", << "o", "k" >>) >>],
          [contacts |-> << Contact, Contact >>,
           conversations |-> << Conversation(1, << "h", "i" >>),
                                Conversation(2, << "o", "k" >>) >>,
           messages |-> << Message(1, "inbound", << "h", "i" >>),
                           Message(2, "outbound", << "o", "k" >>) >>] }

\* The manager started over a store that earlier saves have written to.
RestartInit ==
    /\ InitManager
    /\ \E store \in LeftStores :
          /\ contacts = store.contacts
          /\ conversations = store.conversations
          /\ messages = store.messages
    /\ saveTasks = << >>
    /\ nFaults = 0
    /\ bootstrap = Tenancy(NoProfile)

RestartSpec == RestartInit /\ [][StoreNext]_vars

\* The contacts table under calls of findOrCreateContact.
ContactNext ==
    \/ \E phone \in Phones, name \in Names :
          CallFindOrCreateContact(phone, name)
    \/ \E k \in 1..MaxCalls, ok \in BOOLEAN :
          \/ ContactFindReturn(k, ok)
          \/ ContactUpdateReturn(k, ok)
          \/ ContactInsertReturn(k, ok)

ContactSpec == Init /\ [][ContactNext]_vars

\* searchKB under every scope, topK and environment.
SearchNext ==
    \/ \E topK \in 0..MaxTopK, waAccountId \in {NULL, "acc1", "acc3"},
          orgId \in {NULL, "org1", "org2"}, env \in KbEnvs :
          CallSearchKB(topK, waAccountId, orgId, env)
    \/ SearchKBReturn

SearchSpec == Init /\ [][SearchNext]_vars

\* generateAIReply under every message, list of matches and outcome of the
\* generation endpoint.
GenerateNext ==
    \/ \E userMessage \in Bodies, kbMatches \in MatchLists,
          response \in Responses :
          CallGenerateAIReply(userMessage, kbMatches, response)
    \/ GenerateAIReplyReturn

GenerateSpec == Init /\ [][GenerateNext]_vars

\* The manager up to the ready event, the message events it takes and the
\* administrative disconnect of its account.
AdminNext ==
    \/ \E found \in BOOLEAN : Start(found)
    \/ \E ok \in BOOLEAN : InitializeReturn(ok)
    \/ OnReady
    \/ \E t \in Running, ok \in BOOLEAN : ReadyPersisted(t, ok)
    \/ \E t \in Running, ok \in BOOLEAN : ReadyPhone(t, ok)
    \/ \E ok \in BOOLEAN : disconnectWhatsAppAccount(ok)
    \/ \E body \in {PingCommand, << "h", "i" >>} : OnMessage(TRUE, body)

AdminSpec == Init /\ [][AdminNext]_vars

\* deleteDirSafely on directories of up to MaxFiles files, every attempt
\* with every outcome.
CleanupNext ==
    \/ \E n \in 0..MaxFiles : CallDeleteDirSafely(n)
    \/ \E outcome \in AttemptOutcomes :
          deleteFileWithRetry(SessionRetries, outcome)
    \/ RetryDelay
    \/ \E ok \in BOOLEAN : RmdirReturn(ok)

CleanupSpec == Init /\ [][CleanupNext]_vars

\* The bootstrap route, called again and again for one user who has no
\* profile yet or a profile without default organization.
BootstrapInit ==
    /\ InitManager
    /\ contacts = << >> /\ conversations = << >> /\ messages = << >>
    /\ saveTasks = << >> /\ nFaults = 0
    /\ bootstrap \in {Tenancy(NoProfile),
                      Tenancy([exists |-> TRUE, default |-> 0, by |-> 0])}

BootstrapNext ==
    \/ CallBootstrap
    \/ \E k \in 1..MaxBootCalls, ok \in BOOLEAN :
          \/ ProfileFindReturn(k, ok)
          \/ MembershipSingleReturn(k, ok)
          \/ UserGetReturn(k, ok)
          \/ SlugFindReturn(k, ok)
          \/ OrgInsertReturn(k, ok)
          \/ ProfileInsertReturn(k, ok)
          \/ ProfileUpdateReturn(k, ok)
          \/ MembershipFindReturn(k, ok)
          \/ MembershipInsertReturn(k, ok)
          \/ ProfileDeleteReturn(k, ok)
          \/ OrgDeleteReturn(k, ok)

BootstrapSpec == BootstrapInit /\ [][BootstrapNext]_vars

\* cosineSim under every pair of vectors.
CosineNext ==
    \/ \E a, b \in MaybeVectors : CallCosineSim(a, b)
    \/ CosineSimReturn

CosineSpec == Init /\ [][CosineNext]_vars

\* ------------------------------------------------------------------ views

\* The handlers in progress together with the one that finished last.
Handlers == Running \cup {lastDone}

IsTeardown(t) == t.kind = "disconnected" /\ t.arg = "LOGOUT"

\* A logout teardown is in progress: handleLogout has been entered and its
\* reinitialize call has not returned.
TeardownPcs == {"destroy", "wait1", "del_auth", "del_cache", "wait2", "reinit"}

LoggingOut == \E t \in Running : IsTeardown(t) /\ t.pc \in TeardownPcs

Last(seq) == seq[Len(seq)]

Contains(seq, x) == \E i \in 1..Len(seq) : seq[i] = x

IsPrefix(a, b) == Len(a) <= Len(b) /\ \A i \in 1..Len(a) : a[i] = b[i]

\* The broadcast state a failed reinitialize publishes.
ReinitFailedState ==
    [connected |-> FALSE, qrDataUrl |-> NULL,
     lastError |-> "Reinitialization failed"]

\* ------------------------------------------------------------------ claims

\* C1: whatever the operations a transport event handler invokes do, no
\* exception leaves the handler for the host process, so no reachable state
\* has the process crashed.
C1_ProcessNeverCrashes == ~crashed

\* How a finished teardown ended: its reinitialize call resolved, so the
\* connection is started again and waits for pairing or connects, or it
\* rejected and the session state published is the error state.
TeardownOutcome(t) ==
    /\ Len(t.log) > 0
    /\ \/ Last(t.log) = "reinit_ok"
       \/ Last(t.log) = "reinit_failed" /\ Last(t.sent) = ReinitFailedState

\* C2: after a disconnected event with reason LOGOUT, given that both timers
\* fire and every awaited call returns (a terminated process fires no
\* timer), the teardown does not stay in progress forever, and every
\* teardown that is over ended with the reinitialize call resolved (session
\* started again: pending pairing or connected) or with the error state
\* published (reinitialize failed).
C2_TeardownEnds ==
    /\ LoggingOut ~> (~LoggingOut \/ crashed)
    /\ [](IsTeardown(lastDone) => TeardownOutcome(lastDone))

C2_Witness ==
    /\ IsTeardown(lastDone)
    /\ Last(lastDone.log) = "reinit_ok"
    /\ clients[client] = "live"
    /\ ~LoggingOut
    /\ ~crashed

\* C3: when the reinitialize step of a logout teardown has failed, the
\* persisted status of the bound account is error.
C3_ReinitFailurePersistsError ==
    (/\ ctx
     /\ IsTeardown(lastDone)
     /\ Contains(lastDone.log, "reinit_failed"))
        => acct.status = "error"

\* C4: when an auth_failure or error event has been handled for a bound
\* account, the persisted status is error and the reason is recorded.
C4_FailureEventPersistsError ==
    (ctx /\ lastDone.kind \in {"auth_failure", "error"})
        => acct.status = "error" /\ acct.notes = lastDone.arg

\* The edges of the documented status machine, in the names of the wa_status
\* enum (pending_qr is pending pairing).
DocumentedEdges ==
    {<< "pending_qr", "connected" >>, << "connected", "disconnected" >>,
     << "disconnected", "pending_qr" >>, << "disconnected", "connected" >>}
        \cup {<< s, "error" >> : s \in Statuses}

\* C5: every change of the persisted status is an edge of the documented
\* machine.
C5_OnlyDocumentedEdges ==
    [][acct'.status # acct.status
          => << acct.status, acct'.status >> \in DocumentedEdges]_vars

\* C6 as stated: a connection object that has been destroyed is never
\* initialized or used again.
C6_DestroyedStaysDestroyed ==
    [][\A c \in 1..Len(clients) :
          clients[c] = "destroyed" => clients'[c] = "destroyed"]_vars

\* C6 as the code has it: the teardown calls initialize() on the connection
\* object it destroyed; no second connection object is ever constructed, so
\* at most one connection object, and at most one live connection, exists.
C6_SameObjectReinitialized ==
    /\ Len(clients) = 1
    /\ client = 1
    /\ \A t \in Handlers : t.reinitOn # 0 => t.reinitOn = t.destroyedOn
    /\ Cardinality({c \in 1..Len(clients) : clients[c] = "live"}) <= 1

C6_Witness ==
    \E t \in Running :
        /\ IsTeardown(t)
        /\ t.pc = "reinit"
        /\ ~t.fault
        /\ t.reinitOn = t.destroyedOn
        /\ clients[t.reinitOn] = "initializing"

\* The steps of handleLogout in the order the code takes them.
TeardownOrder ==
    << "destroy_call", "destroy_ret", "timer1", "auth_start", "auth_ret",
       "cache_start", "cache_ret", "timer2", "reinit_call" >>

\* The steps a handler has taken inside handleLogout.
TeardownLog(t) ==
    LET body == IF Len(t.log) > 0 /\ t.log[1] = "status"
                THEN Tail(t.log) ELSE t.log
    IN  IF Len(body) > 0 /\ Last(body) \in {"reinit_ok", "reinit_failed"}
        THEN SubSeq(body, 1, Len(body) - 1) ELSE body

\* C7: every teardown takes its steps in the order destroy, first timer,
\* deletion of the session directory, deletion of the cache directory,
\* second timer, reinitialize, each started after the one before has
\* returned; and a teardown that is over has made its reinitialize call,
\* also when destroy failed or a directory could not be removed.
C7_TeardownOrder ==
    \A t \in Handlers :
        IsTeardown(t) =>
            /\ IsPrefix(TeardownLog(t), TeardownOrder)
            /\ t.pc = "done" => TeardownLog(t) = TeardownOrder

C7_Witness ==
    /\ IsTeardown(lastDone)
    /\ lastDone.fault
    /\ lastDone.pc = "done"
    /\ Contains(lastDone.log, "reinit_call")

\* The broadcast a handler has published once it has made its transition.
Published(t) ==
    /\ t.kind = "qr" /\ t.pc \in {"persist", "done"} =>
           /\ Len(t.sent) = 1
           /\ t.sent[1] = [connected |-> FALSE, qrDataUrl |-> "image",
                           lastError |-> NULL]
    /\ t.kind = "ready" =>
           /\ Len(t.sent) = 1
           /\ t.sent[1] = [connected |-> TRUE, qrDataUrl |-> NULL,
                           lastError |-> NULL]
    /\ t.kind \in {"auth_failure", "error"} =>
           /\ Len(t.sent) = 1
           /\ ~t.sent[1].connected
           /\ t.sent[1].lastError = t.arg
    /\ t.kind = "disconnected" =>
           /\ Len(t.sent) >= 1
           /\ t.sent[1] = [connected |-> FALSE, qrDataUrl |-> NULL,
                           lastError |-> t.arg]
    /\ Contains(t.log, "reinit_failed") =>
           /\ Len(t.sent) = 2
           /\ t.sent[2] = ReinitFailedState

\* C8: every handler that has made its state transition has published the
\* broadcast state of that transition, and the step in which it publishes
\* is the step in which it goes on (to the persistence call, the teardown,
\* or its end); a failed initialize publishes its failure in the step that
\* catches it; and what is published is the shared state itself.
C8_TransitionsBroadcast ==
    /\ [](\A t \in Handlers : Published(t))
    /\ [][boot' = "failed" /\ boot # "failed" =>
             waState' = [connected |-> FALSE, qrDataUrl |-> NULL,
                         lastError |-> "Initialization failed"]]_vars
    /\ [][waState' # waState =>
             \/ boot' = "failed" /\ boot # "failed"
             \/ \E t \in Handlers' :
                    Len(t.sent) > 0 /\ Last(t.sent) = waState']_vars

C8_Witness ==
    /\ IsTeardown(lastDone)
    /\ Len(lastDone.sent) = 2
    /\ waState = ReinitFailedState

\* The apology was sent: the catch block's msg.reply returned.
ApologySent(m, ok) ==
    \E k \in 1..Len(m.sends) :
        m.sends[k].body = ErrorReply /\ m.sends[k].ok = ok

ApologySaved(m) ==
    \E k \in 1..Len(m.outSaves) :
        m.outSaves[k] = OutgoingSave(ErrorReply, FALSE, NULL, NULL)

\* What C9 says of every handler whatever the account context: it does not
\* throw, it has sent the apology by the time it returns if an operation
\* raised, and it returns even if that send failed.
NeverPropagates(m) ==
    /\ m.outcome # "threw"
    /\ m.raised # NULL /\ m.pc = "done" =>
           /\ m.outcome = "returned"
           /\ ApologySent(m, TRUE) \/ ApologySent(m, FALSE)
    /\ ApologySaved(m) => ApologySent(m, TRUE)

\* C9 as stated: the handler never propagates an exception, and whenever the
\* apology send has succeeded the apology has been handed to the store as an
\* outbound message with aiUsed = false.
C9_ApologyAlwaysPersisted ==
    \A i \in 1..Len(msgs) :
        /\ NeverPropagates(msgs[i])
        /\ ApologySent(msgs[i], TRUE) => ApologySaved(msgs[i])

\* C9 as the code has it: the handler never propagates an exception; when
\* retrieval, generation or the send of the reply raises it sends the
\* apology and returns whether or not that send succeeds; the apology is
\* handed to the store, with aiUsed = false and no model or latency, when
\* the send has succeeded and the manager is bound to an account context,
\* and not otherwise.
C9_ApologyPersistedWhenBound ==
    /\ escaped = NULL
    /\ \A i \in 1..Len(msgs) :
           /\ NeverPropagates(msgs[i])
           /\ ApologySaved(msgs[i]) <=> ctx /\ ApologySent(msgs[i], TRUE)

\* A handler whose apology send failed has returned, and the next message
\* was handled, its reply send failed as well and its apology was saved.
C9_Witness ==
    /\ ctx
    /\ Len(msgs) = 2
    /\ msgs[1].raised # NULL /\ msgs[1].pc = "done"
           /\ ApologySent(msgs[1], FALSE)
    /\ msgs[2].raised = "reply" /\ msgs[2].pc = "done"
           /\ ApologySaved(msgs[2])

\* Bodies that are "ping" once trimmed and lower-cased.
PingBodies ==
    { << "p", "i", "n", "g" >>, << " ", "P", "i", "N", "G", "\t" >> }

\* C10: for a message whose body, trimmed and lower-cased, is "ping", the
\* first thing the handler awaits is the send of the fixed reply, it calls
\* neither searchKB nor generateAIReply, when no send fails the fixed reply
\* is all it sends, and every outgoing save it calls has aiUsed = false, no
\* model and no latency.
C10_PingShortCircuit ==
    \A i \in 1..Len(msgs) :
        msgs[i].hasBody /\ msgs[i].body \in PingBodies =>
            /\ msgs[i].calls[1] = "reply"
            /\ ~Contains(msgs[i].calls, "searchKB")
            /\ ~Contains(msgs[i].calls, "generateAIReply")
            /\ Len(msgs[i].sends) > 0 => msgs[i].sends[1].body = PingReply
            /\ msgs[i].pc = "done" /\ msgs[i].raised = NULL =>
                   msgs[i].sends = << [body |-> PingReply, ok |-> TRUE] >>
            /\ \A k \in 1..Len(msgs[i].outSaves) :
                   /\ ~msgs[i].outSaves[k].aiUsed
                   /\ msgs[i].outSaves[k].aiModel = NULL
                   /\ msgs[i].outSaves[k].aiLatencyMs = NULL

C10_Witness ==
    \E i \in 1..Len(msgs) :
        /\ msgs[i].body = << " ", "P", "i", "N", "G", "\t" >>
        /\ msgs[i].pc = "done"
        /\ msgs[i].sends = << [body |-> PingReply, ok |-> TRUE] >>
        /\ msgs[i].outSaves = << OutgoingSave(PingReply, FALSE, NULL, NULL) >>

\* Bodies that are empty once trimmed.
BlankBodies == { << >>, << " ", "\t" >> }

\* C11: for a message whose body is missing, empty or only white space the
\* handler returns at once: it has awaited nothing (no reply, no searchKB,
\* no generateAIReply), called no save and sent nothing; and the step that
\* delivers such a message changes nothing but the record of the delivery.
C11_BlankMessageNoEffect ==
    /\ [](\A i \in 1..Len(msgs) :
            ~msgs[i].hasBody \/ msgs[i].body \in BlankBodies =>
                /\ msgs[i].pc = "done"
                /\ msgs[i].outcome = "returned"
                /\ msgs[i].calls = << >>
                /\ msgs[i].inSaves = << >>
                /\ msgs[i].outSaves = << >>
                /\ msgs[i].sends = << >>)
    /\ [][(/\ Len(msgs') = Len(msgs) + 1
           /\ \/ ~msgs'[Len(msgs')].hasBody
              \/ msgs'[Len(msgs')].body \in BlankBodies)
              => /\ SubSeq(msgs', 1, Len(msgs)) = msgs
                 /\ UNCHANGED << lifecycleVars, escaped, crashed, dataVars >>]_vars

C11_Witness ==
    /\ ctx
    /\ Len(msgs) = 2
    /\ msgs[1].hasBody /\ msgs[1].body = << " ", "\t" >> /\ msgs[1].pc = "done"
    /\ ~msgs[2].hasBody /\ msgs[2].pc = "done"

\* The replies the handler sends when nothing it awaits raises.
Answers == {PingReply} \cup AiReplies

\* C12: a handler that has called the incoming save stands at the await of
\* the reply path, and its next step can be taken whether the save is
\* pending, has resolved to a row or has resolved to null; what it sends
\* does not depend on the save: the apology is sent only after searchKB,
\* generateAIReply or the reply itself raised, and a handler that ended
\* without one has sent its answer.
C12_ReplyNeverWaitsOnSave ==
    \A i \in 1..Len(msgs) :
        msgs[i].saved # "none" =>
            /\ msgs[i].inSaves # << >>
            /\ msgs[i].pc # "done" => ENABLED HandlerStep(i)
            /\ msgs[i].raised \in {NULL, "searchKB", "generateAIReply", "reply"}
            /\ msgs[i].raised = NULL =>
                   \A k \in 1..Len(msgs[i].sends) :
                       msgs[i].sends[k].body \in Answers
            /\ msgs[i].pc = "done" /\ msgs[i].raised = NULL =>
                   /\ Len(msgs[i].sends) = 1
                   /\ msgs[i].sends[1].ok

\* One reply sent while the save was still pending and another sent after
\* the save had failed, neither of them the apology.
C12_Witness ==
    /\ Len(msgs) = 2
    /\ msgs[1].saved = "pending" /\ msgs[1].pc = "done"
    /\ msgs[1].sends = << [body |-> "generated text", ok |-> TRUE] >>
    /\ msgs[2].saved = "null" /\ msgs[2].pc = "done"
    /\ msgs[2].sends = << [body |-> PingReply, ok |-> TRUE] >>

\* The saves that have returned.
Returned(k) == k \in 1..Len(saveTasks) /\ saveTasks[k].pc = "done"

\* The message rows of a direction that save k inserted.
RowsOf(k, direction) ==
    {id \in 1..Len(messages) :
        /\ id = saveTasks[k].message
        /\ messages[id].direction = direction}

\* C13: when no store operation has failed and the incoming save of a
\* message and the outgoing save of its reply have both returned, each has
\* inserted one message row, and the two rows are in one conversation, which
\* is a conversation of a contact with the address of the sender.
C13_OneExchangeOneConversation ==
    \A k, j \in 1..Len(saveTasks) :
        /\ saveTasks[j].re = k
        /\ Returned(k) /\ Returned(j)
        /\ nFaults = 0
        => /\ Cardinality(RowsOf(k, "inbound")) = 1
           /\ Cardinality(RowsOf(j, "outbound")) = 1
           /\ Len(messages) = 2
           /\ \A a \in RowsOf(k, "inbound"), b \in RowsOf(j, "outbound") :
                 /\ messages[a].conversation = messages[b].conversation
                 /\ contacts[conversations[messages[a].conversation].contact]
                        .phone = saveTasks[k].phone

\* C19: when no store operation has failed and a call of
\* findOrCreateContact was made after an earlier call with the same address
\* had returned a contact, the later call returns the same contact id and
\* inserts no row.
C19_SecondCallFindsContact ==
    \A k \in 1..Len(saveTasks) : \A j \in saveTasks[k].after :
        /\ saveTasks[k].direction = "contact"
        /\ saveTasks[j].direction = "contact"
        /\ Returned(j) /\ Returned(k)
        /\ nFaults = 0
        => /\ saveTasks[k].result = saveTasks[j].result
           /\ "contacts" \notin saveTasks[k].made

\* C20: no two rows of the conversations table have the same contact.
C20_OneConversationPerContact ==
    \A a, b \in 1..Len(conversations) :
        conversations[a].contact = conversations[b].contact => a = b

\* A call of searchKB that has settled, and what it settled with.
Searched == fnCall.fn = "searchKB" /\ fnCall.pc = "settled"
Found == fnCall.result.value

\* The chunk of the table a result row was made of.
ChunkOf(m) == CHOOSE i \in 1..Len(fnCall.env.kb) : fnCall.env.kb[i].id = m.id

\* The fallback path is the one taken when search_kb_chunks is not
\* installed.
OnFallback == fnCall.env.rpc = "missing" /\ fnCall.env.fetch = "rows"

\* The fetched chunks with a vector of the length of the query and a
\* positive score.
Candidates ==
    LET kb    == fnCall.env.kb
        query == fnCall.env.embedding.values
    IN  {i \in 1..Len(kb) :
            /\ KbSources[kb[i].source].status = "ready"
            /\ KbSources[kb[i].source].org =
                   (IF fnCall.orgId # NULL THEN fnCall.orgId
                    ELSE Accounts[fnCall.waAccountId])
            /\ fnCall.waAccountId # NULL =>
                   KbSources[kb[i].source].account = fnCall.waAccountId
            /\ kb[i].embedding.parses
            /\ Len(kb[i].embedding.values) = Len(query)
            /\ ScorePositive(cosineSim(query, kb[i].embedding.values))}

\* C16: searchKB returns at most topK rows in the order of non-increasing
\* score; on the fallback path the rows are distinct candidates, as many as
\* topK allows, each with its cosine score, and no candidate left out has a
\* higher score than a row returned.
C16_TopKSortedByScore ==
    Searched =>
        /\ Len(Found) <= fnCall.topK
        /\ \A i, j \in 1..Len(Found) :
              i < j => ScoreGE(Found[i].score, Found[j].score)
        /\ OnFallback /\ Found # << >> =>
              LET kb == fnCall.env.kb
                  returned == {ChunkOf(Found[i]) : i \in 1..Len(Found)}
              IN  /\ Cardinality(returned) = Len(Found)
                  /\ returned \subseteq Candidates
                  /\ Len(Found) = fnCall.topK \/ returned = Candidates
                  /\ \A i \in 1..Len(Found) :
                        Found[i].score =
                            cosineSim(fnCall.env.embedding.values,
                                      kb[ChunkOf(Found[i])].embedding.values)
                  /\ \A c \in Candidates \ returned : \A i \in 1..Len(Found) :
                        ScoreGE(Found[i].score,
                                cosineSim(fnCall.env.embedding.values,
                                          kb[c].embedding.values))

\* Two of three candidates returned on the fallback path, the higher first.
C16_Witness ==
    /\ Searched /\ OnFallback
    /\ fnCall.topK = 2 /\ fnCall.waAccountId = "acc1"
    /\ fnCall.env.embedding.values = << 1, 1 >> /\ fnCall.env.kb = MixedKb
    /\ Len(Found) = 2 /\ Found[1].id = "c2" /\ Found[2].id = "c7"

\* C17: searchKB does not raise, and it returns the empty list when it is
\* given no organization and the account lookup gives none, when the
\* embedding request fails or gives no values, when the select on kb_chunks
\* fails, and when the table has no chunk of a ready source.
C17_SearchNeverRaises ==
    Searched =>
        /\ ~fnCall.result.raised
        /\ \/ /\ fnCall.orgId = NULL
              /\ fnCall.waAccountId = NULL \/ fnCall.env.lookup # "row"
           \/ ~fnCall.env.embedding.ok \/ fnCall.env.embedding.values = << >>
           \/ fnCall.env.rpc = "missing" /\ fnCall.env.fetch = "error"
           \/ \A i \in 1..Len(fnCall.env.kb) :
                 KbSources[fnCall.env.kb[i].source].status # "ready"
           => Found = << >>

\* A search in a resolved scope over a table with ready chunks whose
\* embedding request failed.
C17_Witness ==
    /\ Searched
    /\ fnCall.env.admin /\ fnCall.orgId = "org1" /\ fnCall.topK = 3
    /\ fnCall.env.kb = CleanKb /\ ~fnCall.env.embedding.ok
    /\ Found = << >>

\* C18: every row searchKB returns is a chunk of a ready source of the
\* organization given, or of the organization of the account when none is
\* given, and of the account when one is given.
C18_ResultsInScope ==
    Searched =>
        \A i \in 1..Len(Found) :
            LET source == KbSources[fnCall.env.kb[ChunkOf(Found[i])].source]
            IN  /\ \E k \in 1..Len(fnCall.env.kb) :
                      fnCall.env.kb[k].id = Found[i].id
                /\ source.status = "ready"
                /\ source.org = (IF fnCall.orgId # NULL THEN fnCall.orgId
                                 ELSE Accounts[fnCall.waAccountId])
                /\ fnCall.waAccountId # NULL =>
                      source.account = fnCall.waAccountId
                /\ Found[i].wa_account_id = source.account

\* A search of one organization without an account filter over a table
\* holding chunks of another organization and of a source not ready, on the
\* path of search_kb_chunks.
C18_Witness ==
    /\ Searched
    /\ fnCall.env.rpc = "installed"
    /\ fnCall.orgId = "org1" /\ fnCall.waAccountId = NULL
    /\ fnCall.env.kb = CleanKb /\ fnCall.env.embedding.values = << 1, 0 >>
    /\ Len(Found) = 3

\* A call of generateAIReply that has settled, and the reply it gave.
Generation == fnCall.fn = "generateAIReply" /\ fnCall.pc = "settled"
Reply == fnCall.result.value

\* The lists of parts whose texts joined and trimmed are empty.
BlankParts == {<< >>, << << >> >>, << << " " >>, << >> >>}

\* C15: generateAIReply does not raise and its reply is not empty; when the
\* request fails or the status is not 2xx the reply is one of the two fixed
\* error strings, and when a 2xx response that parses has no parts or only
\* blank text the reply is the request to rephrase.
C15_ReplyNeverEmpty ==
    Generation =>
        /\ ~fnCall.result.raised
        /\ Reply.fixed \in {GenerationError, GenerationFailure, Rephrase}
              \/ (Reply.fixed = NULL /\ Reply.text # << >>)
        /\ fnCall.response.transport = "failed" \/ ~fnCall.response.ok =>
              Reply.fixed \in {GenerationError, GenerationFailure}
        /\ /\ fnCall.response.transport = "answered"
           /\ fnCall.response.ok /\ fnCall.response.parses
           /\ ~fnCall.response.hasParts \/ fnCall.response.parts \in BlankParts
           => Reply.fixed = Rephrase

\* A 2xx response with a blank text, for a message without matches, answered
\* with the request to rephrase.
C15_Witness ==
    /\ Generation
    /\ fnCall.kbMatches = << >>
    /\ fnCall.response.transport = "answered"
    /\ fnCall.response.ok /\ fnCall.response.parses
    /\ fnCall.response.hasParts
    /\ fnCall.response.parts = << << " " >>, << >> >>
    /\ Reply = Fixed(Rephrase)

\* C14: at a bound manager, the matches handed to generateAIReply are what
\* searchKB returns for the organization and the account of the manager,
\* and the snippets of the prompt carry their texts in that order; with
\* ready chunks of the account matching the message there is at least one.
C14_PromptHasScopedSnippets ==
    \A i \in 1..Len(msgs) :
        ctx /\ Contains(msgs[i].calls, "generateAIReply") =>
            LET scoped == searchKB(3, BoundAccount, BoundOrg, ServingKb).value
            IN  /\ scoped # << >>
                /\ msgs[i].kbMatches = scoped
                /\ Len(msgs[i].prompt.snippets) = Len(scoped)
                /\ \A k \in 1..Len(scoped) :
                      msgs[i].prompt.snippets[k].text = scoped[k].text

\* The stores of LeftStores are left by the saves of StoreSpec.
StoreLeft ==
    /\ \A k \in 1..Len(saveTasks) : Returned(k)
    /\ [contacts |-> contacts, conversations |-> conversations,
        messages |-> messages] \in LeftStores

\* C21: a save that returned a message got a contact and a conversation and
\* inserted that message; a save that returned null inserted no message; and
\* a save called after a save of the same address had returned null uses the
\* contact and the conversation the failed save had got, inserting neither.
C21_FailedSaveLeavesRowsReused ==
    \A k \in 1..Len(saveTasks) :
        Returned(k) =>
            /\ saveTasks[k].result # 0 =>
                  /\ saveTasks[k].contact # 0 /\ saveTasks[k].conv # 0
                  /\ saveTasks[k].message = saveTasks[k].result
                  /\ "messages" \in saveTasks[k].made
            /\ saveTasks[k].result = 0 => "messages" \notin saveTasks[k].made
            /\ \A j \in saveTasks[k].since :
                  /\ saveTasks[j].phone = saveTasks[k].phone
                  /\ saveTasks[j].result = 0
                  => /\ saveTasks[j].contact # 0 /\ saveTasks[k].contact # 0
                        => /\ saveTasks[k].contact = saveTasks[j].contact
                           /\ "contacts" \notin saveTasks[k].made
                     /\ saveTasks[j].conv # 0 /\ saveTasks[k].conv # 0
                        => /\ saveTasks[k].conv = saveTasks[j].conv
                           /\ "conversations" \notin saveTasks[k].made

\* C22: cosineSim gives the same score with its arguments exchanged, -1
\* when a vector is missing or the lengths differ, and 1 for a vector with
\* a non-zero component compared with itself.
C22_CosineSymmetric ==
    fnCall.fn = "cosineSim" /\ fnCall.pc = "settled" =>
        LET a == fnCall.a
            b == fnCall.b
            score == fnCall.result
        IN  /\ score = cosineSimOrMissing(b, a)
            /\ ~a.given \/ ~b.given \/ Len(a.values) # Len(b.values) =>
                  score = [dot |-> -1, nn |-> 1]
            /\ /\ a.given /\ a = b
               /\ \E i \in 1..Len(a.values) : a.values[i] # 0
               => score.dot > 0 /\ score.dot * score.dot = score.nn

\* A vector compared with itself and scored 1.
C22_Witness ==
    /\ fnCall.fn = "cosineSim" /\ fnCall.pc = "settled"
    /\ fnCall.a = [given |-> TRUE, values |-> << 2, -1 >>]
    /\ fnCall.b = fnCall.a
    /\ fnCall.result = [dot |-> 5, nn |-> 25]

\* The calls of the bootstrap route that have responded with the status.
Responded(status) ==
    {k \in 1..Len(bootstrap.calls) :
        bootstrap.calls[k].pc = "done" /\ bootstrap.calls[k].status = status}

BootstrapQuiet ==
    \A k \in 1..Len(bootstrap.calls) : bootstrap.calls[k].pc = "done"

\* C23: once every call has responded, the successful calls have returned
\* one and the same organization, which exists together with one profile
\* and one membership and no other organization, and no call that responded
\* 500 has left an organization or a profile it created.
C23_BootstrapIdempotent ==
    BootstrapQuiet =>
        /\ \A j, k \in Responded(200) :
              bootstrap.calls[j].returned = bootstrap.calls[k].returned
        /\ \A k \in Responded(200) :
              /\ {o.id : o \in bootstrap.orgs} = {bootstrap.calls[k].returned}
              /\ bootstrap.profile.exists
              /\ bootstrap.memberships = {bootstrap.calls[k].returned}
        /\ \A k \in Responded(500) :
              /\ \A o \in bootstrap.orgs : o.id # bootstrap.calls[k].madeOrg
              /\ ~ (bootstrap.profile.exists /\ bootstrap.profile.by = k)

\* The message rows of conversation c, by their position in the table.
MessagesOf(c) == {m \in 1..Len(messages) : messages[m].conversation = c}

\* The row of conversation c that was inserted last.
LastMessageOf(c) ==
    CHOOSE m \in MessagesOf(c) : \A n \in MessagesOf(c) : n <= m

\* C24: whenever no save is in progress, the preview of every conversation
\* with messages is the truncated body of the message inserted last into it.
C24_PreviewIsLastMessage ==
    (\A k \in 1..Len(saveTasks) : Returned(k)) =>
        \A c \in 1..Len(conversations) :
            MessagesOf(c) # {} =>
                conversations[c].preview = preview(messages[LastMessageOf(c)].body)

\* C25: every step leaves the message rows it finds as they are, in their
\* places; rows are only added after them.
C25_MessagesAppendOnly ==
    [][/\ Len(messages') >= Len(messages)
       /\ SubSeq(messages', 1, Len(messages)) = messages]_vars

\* An inbound and an outbound message have been inserted into the same
\* conversation and both saves have updated it and returned.
C25_Witness ==
    /\ Len(messages) = 2
    /\ messages[1].conversation = messages[2].conversation
    /\ messages[1].direction # messages[2].direction
    /\ \A k \in 1..2 : Returned(k) /\ saveTasks[k].result # 0

\* The outgoing saves handleMessage has called for message i.
OutSavesOf(i) == {msgs[i].outSaves[n] : n \in 1..Len(msgs[i].outSaves)}

\* The sends of message i that returned.
SentBy(i) ==
    {msgs[i].sends[n].body : n \in {j \in 1..Len(msgs[i].sends) :
                                        msgs[i].sends[j].ok}}

\* C26 as stated: whatever the account context, a sent reply of
\* generateAIReply is saved as generated with the model and the latency.
C26_SentReplyAlwaysSaved ==
    \A i \in 1..Len(msgs) :
        \A reply \in SentBy(i) \cap AiReplies :
            OutgoingSave(reply, TRUE, AiModel, "ms") \in OutSavesOf(i)

\* C26 as the code has it: a sent reply of generateAIReply, the fallback
\* string included, is saved as generated with the model and the latency
\* when the account context is set, and not saved otherwise; only the ping
\* acknowledgement and the apology are saved as not generated, and a ping
\* never as generated.
C26_SentReplySavedAsGenerated ==
    \A i \in 1..Len(msgs) :
        /\ \A reply \in SentBy(i) \cap AiReplies :
              ctx <=> OutgoingSave(reply, TRUE, AiModel, "ms") \in OutSavesOf(i)
        /\ \A save \in OutSavesOf(i) :
              /\ ~save.aiUsed => save.body \in {PingReply, ErrorReply}
              /\ save.aiUsed =>
                    /\ save = OutgoingSave(msgs[i].aiReply, TRUE, AiModel, "ms")
                    /\ save.body \in SentBy(i) \cap AiReplies
                    /\ toLowerCase(msgs[i].text) # PingCommand

\* The fallback string has been sent and saved as generated.
C26_Witness ==
    \E i \in 1..Len(msgs) :
        /\ ctx
        /\ msgs[i].pc = "done"
        /\ "AI Error: Unable to generate response." \in SentBy(i)
        /\ OutgoingSave("AI Error: Unable to generate response.", TRUE,
                        AiModel, "ms") \in OutSavesOf(i)

\* The Account record carries the note of the administrative disconnect.
ManuallyDisconnected == acct.notes = "Manually disconnected"

\* C27: the step that writes the note of the administrative disconnect sets
\* the status to disconnected and leaves the rest of the record, the
\* connection objects, the handlers, the broadcast state, the context and
\* the messages as they are; and with the note written a message event of a
\* connection that is emitting is still taken.
C27_AdminDisconnectOnlyRecord ==
    /\ [][acct'.notes # acct.notes =>
            /\ acct' = [acct EXCEPT !.status = "disconnected",
                                    !.notes = "Manually disconnected"]
            /\ UNCHANGED << waState, ctx, clients, client, boot, tasks,
                            lastDone, nEvents, authDir, cacheDir, msgs,
                            escaped, crashed, dataVars >>]_vars
    /\ [](ManuallyDisconnected /\ Emitting /\ ~crashed
            /\ Len(msgs) < MaxMessages
          => ENABLED OnMessage(TRUE, << "h", "i" >>))

\* The record says disconnected by hand while the connection is live, the
\* broadcast state says connected and a message has been taken, its
\* handler waiting for searchKB.
C27_Witness ==
    /\ ManuallyDisconnected /\ acct.status = "disconnected"
    /\ clients[client] = "live" /\ waState.connected
    /\ \E i \in 1..Len(msgs) : msgs[i].pc = "search"

\* A handler of a disconnected event whose reason is not LOGOUT.
IsPlainDisconnect(t) == t.kind = "disconnected" /\ t.arg # "LOGOUT"

\* C28: a handler of a disconnected event with another reason than LOGOUT
\* has published the disconnected state once and at most written the
\* status: it has destroyed and reinitialized nothing, started no timer and
\* no deletion; and its steps leave the connection objects and the two
\* directories as they are.
C28_PlainDisconnectOnlyTransitions ==
    /\ [](\A t \in Handlers :
            IsPlainDisconnect(t) =>
                /\ t.pc \in {"persist", "done"}
                /\ t.log = IF t.pc = "done" /\ ctx THEN << "status" >>
                           ELSE << >>
                /\ t.sent = << [connected |-> FALSE, qrDataUrl |-> NULL,
                                lastError |-> t.arg] >>
                /\ t.destroyedOn = 0 /\ t.reinitOn = 0 /\ ~t.fault)
    /\ [][(\E t \in Running' \cup {lastDone'} :
              IsPlainDisconnect(t) /\ t \notin Running \cup {lastDone})
          => UNCHANGED << clients, client, authDir, cacheDir >>]_vars

\* A disconnected event with the reason NAVIGATION has been handled on a
\* live connection: the status is written, the broadcast state says
\* disconnected and the connection is still live.
C28_Witness ==
    /\ IsPlainDisconnect(lastDone) /\ lastDone.pc = "done"
    /\ lastDone.log = << "status" >>
    /\ clients[client] = "live" /\ ~waState.connected
    /\ waState.lastError = "NAVIGATION"

\* C29: in deleteDirSafely no file is attempted more than three times; a
\* file is done with true after an attempt that met it unlinked or absent
\* and with false after three attempts that met it locked, the throw of
\* each caught; and the call returns only after every file of the directory
\* has been done, whatever the files before it came to.
C29_BoundedRetriesNeverRaise ==
    fnCall.fn = "deleteDirSafely" =>
        /\ \A f \in 1..fnCall.files :
              /\ fnCall.attempts[f] <= SessionRetries
              /\ f <= Len(fnCall.results) =>
                    /\ fnCall.attempts[f] >= 1
                    /\ ~fnCall.results[f] <=> f \in fnCall.left
                    /\ ~fnCall.results[f] => fnCall.attempts[f] = SessionRetries
        /\ fnCall.pc \in {"rmdir", "rmdir_wait", "returned"} =>
              Len(fnCall.results) = fnCall.files
        /\ fnCall.removed => fnCall.left = {}

\* The first file stayed locked through its three attempts and was skipped,
\* the files after it were deleted, and the call has returned.
C29_Witness ==
    /\ fnCall.fn = "deleteDirSafely" /\ fnCall.pc = "returned"
    /\ fnCall.files = 3
    /\ fnCall.results = << FALSE, TRUE, TRUE >>
    /\ fnCall.attempts[1] = 3

\* Where a handler stands once its updateAccountStatus call has returned:
\* the pairing handler is over, the ready handler awaits the phone-number
\* update, a LOGOUT disconnect awaits destroy() and any other disconnect is
\* over.
AfterStatus(t) ==
    LET u == [t EXCEPT !.log = Append(@, "status")]
    IN  IF t.kind = "ready" THEN [u EXCEPT !.pc = "phone"]
        ELSE IF IsTeardown(t)
        THEN [u EXCEPT !.pc = "destroy", !.log = Append(@, "destroy_call"),
                       !.destroyedOn = client]
        ELSE [u EXCEPT !.pc = "done"]

\* C30: the step in which updateAccountStatus returns to a handler takes the
\* handler to the same place whether the Account record was written or
\* not, and leaves the broadcast state, what the handler has published and
\* the connection objects as they are; nothing escapes and the process
\* goes on.
C30_StatusFailureNotFatal ==
    [][\A t \in Running :
          /\ t.pc = "persist"
          /\ CopiesIn(t, tasks') < CopiesIn(t, tasks)
          => /\ AfterStatus(t) \in Running' \cup {lastDone'}
             /\ acct' \in {acct, StatusUpdates(acct, "pending_qr"),
                           StatusUpdates(acct, "connected"),
                           StatusUpdates(acct, "disconnected")}
             /\ UNCHANGED << waState, clients, client, escaped, crashed >>]_vars

\* The ready handler is over with both updates attempted: the status update
\* failed (the record has never been connected) and the phone number is
\* written, the broadcast state saying connected.
C30_Witness ==
    /\ lastDone.kind = "ready" /\ lastDone.pc = "done"
    /\ lastDone.log = << "status", "phone" >>
    /\ ~acct.last_connected_at /\ acct.status # "connected"
    /\ acct.phone_number
    /\ waState.connected

\* C31: with the broadcast state saying connected and the persisted status
\* being connected, a step of the handler of a pairing challenge, which has
\* arrived before, leaves the one saying connected and the other connected.
C31_ReadyStateKept ==
    [][\A t \in Running :
          t.kind = "qr" /\ CopiesIn(t, tasks') < CopiesIn(t, tasks) =>
              /\ waState.connected => waState'.connected
              /\ acct.status = "connected" => acct'.status = "connected"]_vars

\* C32: for a manager bound to its account, with no event handler in
\* progress the persisted status is connected exactly when the broadcast
\* state says connected.
C32_StatusAgreesWithBroadcast ==
    ctx /\ Running = {} => (acct.status = "connected" <=> waState.connected)

\* C33: no two rows of the contacts table, all of the bound organization
\* and account, have the same address.
C33_OneContactPerAddress ==
    \A a, b \in 1..Len(contacts) :
        contacts[a].phone = contacts[b].phone => a = b

\* The positions of the sends of message i that returned.
Delivered(i) == {n \in 1..Len(msgs[i].sends) : msgs[i].sends[n].ok}

\* C34: for every message at most one send has returned, of the ping
\* acknowledgement, of what generateAIReply returned or of the apology; and
\* the apology is sent only with no send returned before it.
C34_AtMostOneOutbound ==
    \A i \in 1..Len(msgs) :
        /\ Cardinality(Delivered(i)) <= 1
        /\ \A n \in Delivered(i) :
              msgs[i].sends[n].body \in {PingReply, ErrorReply} \cup AiReplies
        /\ \A n \in 1..Len(msgs[i].sends) :
              msgs[i].sends[n].body = ErrorReply =>
                  \A m \in 1..(n - 1) : ~msgs[i].sends[m].ok

\* The send of the generated reply failed and the apology was delivered in
\* its place.
C34_Witness ==
    \E i \in 1..Len(msgs) :
        /\ msgs[i].pc = "done"
        /\ Len(msgs[i].sends) = 2
        /\ msgs[i].sends[1].body \in AiReplies /\ ~msgs[i].sends[1].ok
        /\ msgs[i].sends[2] = [body |-> ErrorReply, ok |-> TRUE]

\* C35: at most one handler of a disconnected event with the reason LOGOUT
\* is in progress.
C35_OneTeardownAtATime ==
    \A t, u \in Running :
        IsTeardown(t) /\ IsTeardown(u) => t = u /\ CopiesIn(t, tasks) = 1

\* C36: a broadcast state that says connected has no pairing image and no
\* error.
C36_ConnectedMeansClean ==
    waState.connected =>
        waState.qrDataUrl = NULL /\ waState.lastError = NULL

\* The broadcast state says connected while the handler of an earlier
\* disconnected event, which had published its reason as the error, is
\* still in progress.
C36_Witness ==
    /\ waState.connected
    /\ \E t \in Running :
          /\ t.kind = "disconnected"
          /\ Len(t.sent) >= 1 /\ t.sent[1].lastError = "NAVIGATION"

\* C37: every outgoing save handleMessage has called is the save of a body
\* whose send had returned, and there are no more saves than sends that
\* returned: nothing is saved of a send that failed or was not made.
C37_SavedOnlyAfterSent ==
    \A i \in 1..Len(msgs) :
        /\ \A save \in OutSavesOf(i) : save.body \in SentBy(i)
        /\ Len(msgs[i].outSaves) <= Cardinality(Delivered(i))

\* The send of the reply failed and the reply was not saved; the apology
\* was sent and is the one outgoing save of the message.
C37_Witness ==
    \E i \in 1..Len(msgs) :
        /\ ctx /\ msgs[i].pc = "done"
        /\ msgs[i].raised = "reply"
        /\ msgs[i].aiReply \notin SentBy(i)
        /\ msgs[i].outSaves =
               << OutgoingSave(ErrorReply, FALSE, NULL, NULL) >>

====
